---------------------------- MODULE Spec2Model ----------------------------
(***************************************************************************)
(* A model of the deletion-safety core of the local-files MCP server:      *)
(*   utils/config.ts  (src/unnamed/part_002)  configuration and its cache  *)
(*   utils/safety.ts  (src/unnamed/part_001, lines 1-181)  path policy     *)
(*   utils/files.ts   (src/unnamed/part_001, lines 183-308) hashing and    *)
(*                     the empty-directory cleanup walk                    *)
(*   tools/organize.ts, tools/search.ts  the tools built on them           *)
(*                                                                         *)
(* JavaScript strings are modelled as sequences of one-character strings,  *)
(* so that startsWith, dirname, split and the regular expressions act on   *)
(* characters exactly as the code does.  The host is POSIX (platform() is  *)
(* "linux"), the home directory is /home/u.                                *)
(***************************************************************************)
EXTENDS Integers, Sequences, FiniteSets, TLC

VARIABLES
  configFile,     \* the content of <configDir>/config.json on disk
  loadedConfig,   \* config.ts `loadedConfig`: <<>> is null, <<c>> a loaded Config
  fs,             \* the filesystem: canonical path |-> [type, data]
  last,           \* the call made last: its arguments and what it returned
  calls           \* how many calls have been made

vars == <<configFile, loadedConfig, fs, last, calls>>

-----------------------------------------------------------------------------
(* Strings *)

Last(s) == s[Len(s)]

startsWith(s, p) == Len(p) <= Len(s) /\ SubSeq(s, 1, Len(p)) = p

endsWith(s, p) == Len(p) <= Len(s) /\ SubSeq(s, Len(s) - Len(p) + 1, Len(s)) = p

slice(s, from) == SubSeq(s, from + 1, Len(s))

SLASH == <<"/">>
BACKSLASH == <<"\\">>

\* String.split on a set of separator characters: the pieces of s from
\* position `from` on, position i being the next to look at
RECURSIVE splitFrom(_, _, _, _)
splitFrom(s, seps, i, from) ==
  IF i > Len(s) THEN <<SubSeq(s, from, Len(s))>>
  ELSE IF s[i] \in seps
    THEN <<SubSeq(s, from, i - 1)>> \o splitFrom(s, seps, i + 1, i + 1)
  ELSE splitFrom(s, seps, i + 1, from)

SplitOn(s, seps) == splitFrom(s, seps, 1, 1)

RECURSIVE JoinWith(_, _)
JoinWith(segs, sep) ==
  IF segs = <<>> THEN <<>>
  ELSE IF Len(segs) = 1 THEN segs[1]
  ELSE segs[1] \o sep \o JoinWith(Tail(segs), sep)

toUpperChar(c) ==
  CASE c = "t" -> "T" [] c = "x" -> "X" [] c = "m" -> "M" [] c = "d" -> "D"
    [] c = "b" -> "B" [] c = "a" -> "A" [] c = "k" -> "K"
    [] OTHER -> c

toLowerChar(c) ==
  CASE c = "T" -> "t" [] c = "X" -> "x" [] c = "M" -> "m" [] c = "D" -> "d"
    [] c = "B" -> "b" [] c = "A" -> "a" [] c = "K" -> "k"
    [] OTHER -> c

toUpperCase(s) == [i \in 1..Len(s) |-> toUpperChar(s[i])] \o <<>>
toLowerCase(s) == [i \in 1..Len(s) |-> toLowerChar(s[i])] \o <<>>

-----------------------------------------------------------------------------
(* node:path, POSIX flavour *)

DOT == <<".">>
DOTDOT == <<".", ".">>

\* normalizeString: drops "" and "." segments, resolves ".." against the
\* segment before it; above the root ".." is dropped, in a relative path kept.
RECURSIVE normalizeSegs(_, _, _)
normalizeSegs(segs, acc, isAbs) ==
  IF segs = <<>> THEN acc
  ELSE LET seg == Head(segs)
           rest == Tail(segs)
       IN  IF seg = <<>> \/ seg = DOT THEN normalizeSegs(rest, acc, isAbs)
           ELSE IF seg = DOTDOT
             THEN IF acc # <<>> /\ Last(acc) # DOTDOT
                    THEN normalizeSegs(rest, SubSeq(acc, 1, Len(acc) - 1), isAbs)
                  ELSE IF isAbs THEN normalizeSegs(rest, acc, isAbs)
                  ELSE normalizeSegs(rest, Append(acc, seg), isAbs)
           ELSE normalizeSegs(rest, Append(acc, seg), isAbs)

normalize(p) ==
  IF p = <<>> THEN DOT
  ELSE LET isAbs == p[1] = "/"
           trailing == Last(p) = "/"
           body == JoinWith(normalizeSegs(SplitOn(p, {"/"}), <<>>, isAbs), SLASH)
       IN  IF body = <<>>
             THEN IF isAbs THEN SLASH ELSE IF trailing THEN DOT \o SLASH ELSE DOT
           ELSE (IF isAbs THEN SLASH ELSE <<>>) \o body
                \o (IF trailing THEN SLASH ELSE <<>>)

\* path.join: the non-empty arguments joined with "/", then normalized
join(a, b) ==
  normalize(IF a = <<>> THEN b ELSE IF b = <<>> THEN a ELSE a \o SLASH \o b)

\* process.cwd() and os.homedir() of the server process
CWD == <<"/","h","o","m","e","/","u">>
HOME == <<"/","h","o","m","e","/","u">>

\* an absolute path without an empty, "." or ".." segment and without a
\* trailing "/": path.resolve returns it as it is
isResolved(p) ==
  /\ p # <<>>
  /\ p[1] = "/"
  /\ Len(p) > 1 => p[Len(p)] # "/"
  /\ \A i \in 2..Len(p) :
       (p[i - 1] = "/" /\ p[i] \in {"/", "."})
         => /\ p[i] = "."
            /\ i < Len(p)
            /\ p[i + 1] # "/"
            /\ p[i + 1] = "." => (i + 1 < Len(p) /\ p[i + 2] # "/")

\* path.resolve(p): p against the working directory, normalized, without a
\* trailing "/"
resolveSegs(p) ==
  LET full == IF p # <<>> /\ p[1] = "/" THEN p
              ELSE IF p = <<>> THEN CWD ELSE CWD \o SLASH \o p
  IN  SLASH \o JoinWith(normalizeSegs(SplitOn(full, {"/"}), <<>>, TRUE), SLASH)

resolve(p) == IF isResolved(p) THEN p ELSE resolveSegs(p)

\* path.dirname: cut at the last "/" that precedes the last segment
\* the scan of path.dirname, from position i (1-based) down to the second
\* character: the position of the first "/" met after a character that is
\* not "/", 0 when there is none
RECURSIVE dirnameEnd(_, _, _)
dirnameEnd(p, i, matchedSlash) ==
  IF i < 2 THEN 0
  ELSE IF p[i] = "/"
    THEN IF ~matchedSlash THEN i ELSE dirnameEnd(p, i - 1, matchedSlash)
  ELSE dirnameEnd(p, i - 1, FALSE)

dirname(p) ==
  IF p = <<>> THEN DOT
  ELSE LET hasRoot == p[1] = "/"
           end == dirnameEnd(p, Len(p), TRUE)
       IN  IF end = 0 THEN (IF hasRoot THEN SLASH ELSE DOT)
           ELSE IF hasRoot /\ end = 2 THEN <<"/", "/">>
           ELSE SubSeq(p, 1, end - 1)

basename(p) == Last(SplitOn(p, {"/"}))

\* path.extname: from the last "." of the last segment, unless that "." is
\* the segment's first character or there is none
extname(p) ==
  LET base == basename(p)
      dots == {i \in 1..Len(base) : base[i] = "."}
  IN  IF dots = {} THEN <<>>
      ELSE LET d == CHOOSE k \in dots : \A j \in dots : j <= k
           IN  IF d = 1 THEN <<>> ELSE SubSeq(base, d, Len(base))

-----------------------------------------------------------------------------
(* Regular expressions.  A RegExp is [start, body, end]: `start` and `end`  *)
(* are the anchors ^ and $, body a sequence of items: a literal character,  *)
(* an optional character (c?), or ".+".  RegExp.test searches the string    *)
(* for a match: an unanchored pattern matches anywhere.                     *)

Lit(c) == [k |-> "lit", c |-> c]
Opt(c) == [k |-> "opt", c |-> c]
AnyPlus == [k |-> "plus", c |-> "."]
Lits(s) == [i \in 1..Len(s) |-> Lit(s[i])] \o <<>>
Anchored(body) == [start |-> TRUE, body |-> body, end |-> TRUE]

\* the positions at which a match of `items`, begun at `pos`, can end
RECURSIVE matchFrom(_, _, _)
matchFrom(items, s, pos) ==
  IF items = <<>> THEN {pos}
  ELSE LET it == Head(items)
           one == IF pos <= Len(s) /\ s[pos] = it.c THEN {pos + 1} ELSE {}
           nexts == CASE it.k = "lit" -> one
                      [] it.k = "opt" -> one \cup {pos}
                      [] it.k = "plus" -> (pos + 1)..(Len(s) + 1)
       IN  UNION {matchFrom(Tail(items), s, n) : n \in nexts}

test(re, s) ==
  \E st \in (IF re.start THEN {1} ELSE 1..(Len(s) + 1)) :
    \E e \in matchFrom(re.body, s, st) : re.end => e = Len(s) + 1

-----------------------------------------------------------------------------
(* utils/config.ts *)

SYSTEM_PROTECTED_PATHS_UNIX ==
  << <<"/">>,
     <<"/","b","i","n">>,
     <<"/","b","o","o","t">>,
     <<"/","d","e","v">>,
     <<"/","e","t","c">>,
     <<"/","l","i","b">>,
     <<"/","l","i","b","6","4">>,
     <<"/","o","p","t">>,
     <<"/","p","r","o","c">>,
     <<"/","r","o","o","t">>,
     <<"/","r","u","n">>,
     <<"/","s","b","i","n">>,
     <<"/","s","r","v">>,
     <<"/","s","y","s">>,
     <<"/","u","s","r">>,
     <<"/","v","a","r">> >>

SYSTEM_PROTECTED_PATTERNS ==
  << Anchored(Lits(<<".","g","i","t">>)),
     Anchored(Lits(<<".","s","s","h">>)),
     Anchored(Lits(<<".","g","n","u","p","g">>)),
     Anchored(Lits(<<".","a","w","s">>)),
     Anchored(Lits(<<".","e","n","v">>)),
     Anchored(Lits(<<".","e","n","v",".">>) \o <<AnyPlus>>),
     Anchored(Lits(<<"i","d","_","r","s","a">>)),
     Anchored(Lits(<<"i","d","_","e","d","2","5","5","1","9">>)),
     Anchored(Lits(<<".","p","e","m">>)),
     Anchored(Lits(<<"c","r","e","d","e","n","t","i","a","l","s">>)),
     Anchored(Lits(<<"s","e","c","r","e","t">>) \o <<Opt("s")>>) >>

\* ConfigSchema.parse({}): every list defaults to []
EmptyConfig ==
  [allowedPaths |-> <<>>,
   additionalProtectedPaths |-> <<>>,
   additionalProtectedPatterns |-> <<>>]

getDefaultAllowedPaths ==
  LET names == << <<"p","r","o","j","e","c","t","s">>,
                  <<"P","r","o","j","e","c","t","s">>,
                  <<"d","e","v">>,
                  <<"D","e","v","e","l","o","p","m","e","n","t">>,
                  <<"w","o","r","k","s","p","a","c","e">>,
                  <<"W","o","r","k","s","p","a","c","e">>,
                  <<"c","o","d","e">>,
                  <<"C","o","d","e">>,
                  <<"t","m","p">>,
                  <<"t","e","m","p">> >>
  IN  [i \in 1..Len(names) |-> join(HOME, names[i])] \o <<>>

\* the Linux branch (platform() is neither "darwin" nor "win32")
getUserProtectedPaths ==
  LET names == << <<".","s","s","h">>,
                  <<".","g","n","u","p","g">>,
                  <<".","a","w","s">>,
                  <<".","c","o","n","f","i","g">>,
                  <<"D","e","s","k","t","o","p">>,
                  <<"D","o","c","u","m","e","n","t","s">>,
                  <<"D","o","w","n","l","o","a","d","s">> >>
  IN  <<HOME>> \o [i \in 1..Len(names) |-> join(HOME, names[i])]

getSystemProtectedPaths == SYSTEM_PROTECTED_PATHS_UNIX

\* a faulty loadConfig that reads the file on every call; C15 fails under it
loadConfig_uncached(loaded, file) ==
  IF file.state = "ok" THEN file.json ELSE EmptyConfig

\* loadConfig: the cached value if there is one, else the file's content;
\* a missing or unparsable file gives ConfigSchema.parse({})
loadConfig(loaded, file) ==
  IF loaded # <<>> THEN loaded[1]
  ELSE IF file.state = "ok" THEN file.json
  ELSE EmptyConfig

expandPath(p) ==
  IF startsWith(p, <<"~">>) THEN join(HOME, slice(p, 1))
  ELSE resolve(p)

getAllowedPaths(config) ==
  IF Len(config.allowedPaths) > 0 
    THEN [i \in 1..Len(config.allowedPaths) |-> expandPath(config.allowedPaths[i])] \o <<>>
  ELSE getDefaultAllowedPaths

getProtectedPaths(config) ==
  getSystemProtectedPaths \o getUserProtectedPaths
    \o [i \in 1..Len(config.additionalProtectedPaths) |->
          expandPath(config.additionalProtectedPaths[i])]

\* new RegExp(p): a pattern that begins with a quantifier ("*.bak") is a
\* SyntaxError, "Nothing to repeat"
compiles(p) == ~(p.body # <<>> /\ p.body[1].k = "star")

\* [ok, patterns]: ok is FALSE when new RegExp throws on a user pattern
getProtectedPatterns(config) ==
  LET Compiled(userPatterns) ==
        IF \E i \in 1..Len(userPatterns) : ~compiles(userPatterns[i])
          THEN [ok |-> FALSE, patterns |-> <<>>]
        ELSE [ok |-> TRUE, patterns |-> SYSTEM_PROTECTED_PATTERNS \o userPatterns]
  IN  Compiled(config.additionalProtectedPatterns)

-----------------------------------------------------------------------------
(* utils/safety.ts *)

\* a SafetyCheckResult; `threw` says that the check raised `reason` instead
\* of returning
Safe == [safe |-> TRUE, reason |-> "none", threw |-> FALSE]
Unsafe(reason) == [safe |-> FALSE, reason |-> reason, threw |-> FALSE]
Raised(error) == [safe |-> FALSE, reason |-> error, threw |-> TRUE]

\* resolve(expandPath(p)) of every path of a list, as both loops of
\* isPathProtected and the loop of isWithinAllowedScope compute it
normalizedList(paths) ==
  [i \in 1..Len(paths) |-> resolve(expandPath(paths[i]))] \o <<>>

\* the part of getProtectedPaths() that no configuration changes, normalized
FixedProtectedNormalized ==
  normalizedList(getSystemProtectedPaths \o getUserProtectedPaths)

normalizedProtectedPaths(config) ==
  FixedProtectedNormalized
    \o normalizedList([i \in 1..Len(config.additionalProtectedPaths) |->
                         expandPath(config.additionalProtectedPaths[i])])

\* a faulty isPathProtected without its second loop (the ancestors of a
\* protected path pass); C4 fails under it
isPathProtected_exactOnly(config, targetPath) ==
  LET Check(normalizedPath, protectedPaths) ==
        IF \E i \in 1..Len(protectedPaths) : normalizedPath = protectedPaths[i]
          THEN Unsafe("PROTECTED_PATH")
        ELSE Safe
  IN  Check(resolve(targetPath), normalizedProtectedPaths(config))

isPathProtected(config, targetPath) ==
  LET Exact(normalizedPath, normalizedProtected) == normalizedPath = normalizedProtected
      Parent(normalizedPath, normalizedProtected) ==
        \/ startsWith(normalizedProtected, normalizedPath \o SLASH)
        \/ startsWith(normalizedProtected, normalizedPath \o BACKSLASH)
      Check(normalizedPath, protectedPaths) ==
        IF \E i \in 1..Len(protectedPaths) : Exact(normalizedPath, protectedPaths[i])
          THEN Unsafe("PROTECTED_PATH")
        ELSE IF \E i \in 1..Len(protectedPaths) : Parent(normalizedPath, protectedPaths[i])
          THEN Unsafe("PARENT_OF_PROTECTED")
        ELSE Safe
  IN  Check(resolve(targetPath), normalizedProtectedPaths(config))

isWithinAllowedScope(config, targetPath) ==
  LET Within(normalizedPath, normalizedAllowed) ==
        \/ startsWith(normalizedPath, normalizedAllowed \o SLASH)
        \/ startsWith(normalizedPath, normalizedAllowed \o BACKSLASH)
        \/ normalizedPath = normalizedAllowed
      Check(normalizedPath, allowedPaths) ==
        IF Len(allowedPaths) = 0 THEN Unsafe("NO_ALLOWED_PATHS")
        ELSE IF \E i \in 1..Len(allowedPaths) :
                  Within(normalizedPath, resolve(expandPath(allowedPaths[i])))
          THEN Safe
        ELSE Unsafe("OUTSIDE_ALLOWED_SCOPE")
  IN  Check(resolve(targetPath), getAllowedPaths(config))

isNameProtected(config, name) ==
  LET Check(got) ==
        IF ~got.ok THEN Raised("SyntaxError")
        ELSE IF \E i \in 1..Len(got.patterns) : test(got.patterns[i], name)
          THEN Unsafe("PROTECTED_NAME")
        ELSE Safe
  IN  Check(getProtectedPatterns(config))

\* a faulty validateDeletion that checks the protected paths before the
\* scope; C8 fails under it
validateDeletion_pathFirst(config, targetPath) ==
  LET First(protectedCheck, scopeCheck, nameCheck) ==
        IF ~protectedCheck.safe THEN protectedCheck
        ELSE IF ~scopeCheck.safe THEN scopeCheck
        ELSE IF ~nameCheck.safe THEN nameCheck
        ELSE Safe
      Check(normalizedPath) ==
        First(isPathProtected(config, normalizedPath),
              isWithinAllowedScope(config, normalizedPath),
              isNameProtected(config, Last(SplitOn(normalizedPath, {"/", "\\"}))))
  IN  Check(resolve(targetPath))

\* a faulty validateDeletion that checks the name before the protected
\* paths; C14 fails under it
validateDeletion_nameFirst(config, targetPath) ==
  LET First(scopeCheck, nameCheck, protectedCheck) ==
        IF ~scopeCheck.safe THEN scopeCheck
        ELSE IF ~nameCheck.safe THEN nameCheck
        ELSE IF ~protectedCheck.safe THEN protectedCheck
        ELSE Safe
      Check(normalizedPath) ==
        First(isWithinAllowedScope(config, normalizedPath),
              isNameProtected(config, Last(SplitOn(normalizedPath, {"/", "\\"}))),
              isPathProtected(config, normalizedPath))
  IN  Check(resolve(targetPath))

validateDeletion(config, targetPath) ==
  LET First(scopeCheck, protectedCheck, nameCheck) ==
        IF ~scopeCheck.safe THEN scopeCheck
        ELSE IF ~protectedCheck.safe THEN protectedCheck
        ELSE IF ~nameCheck.safe THEN nameCheck
        ELSE Safe
      Check(normalizedPath) ==
        First(isWithinAllowedScope(config, normalizedPath),
              isPathProtected(config, normalizedPath),
              isNameProtected(config, Last(SplitOn(normalizedPath, {"/", "\\"}))))
  IN  Check(resolve(targetPath))

-----------------------------------------------------------------------------
(* The filesystem, as node:fs/promises sees it.  `fs` maps the canonical     *)
(* path of every existing entry to its node: a directory, or a regular file  *)
(* with its content and size.  The kernel resolves a path argument against   *)
(* the working directory; there are no symbolic links.                       *)

\* A file's content is <<n, k>>: the k-th byte string of length n; its size is n.
\* mtime is <<year, month>>, the month counted from 0 as Date.getMonth does.
Dir == [type |-> "dir", data |-> <<0, 0>>, size |-> 0, mtime |-> <<2024, 0>>]
File(data, mtime) ==
  [type |-> "file", data |-> data, size |-> data[1], mtime |-> mtime]
\* a symbolic link whose target does not exist: readdir lists it (neither
\* isFile() nor isDirectory()), stat follows it and fails, rm removes it
Link == [type |-> "link", data |-> <<0, 0>>, size |-> 0, mtime |-> <<2024, 0>>]

\* the entry a path argument names: the kernel resolves it against the
\* working directory (the keys of fs are canonical already)
Key(f, p) == IF p \in DOMAIN f THEN p ELSE resolve(p)

\* "dir", "file", or "none" for a path that names nothing
typeAt(f, k) == IF k \in DOMAIN f THEN f[k].type ELSE "none"

exists(f, p) == Key(f, p) \in DOMAIN f
isDirectory(f, p) == typeAt(f, Key(f, p)) = "dir"
isFile(f, p) == typeAt(f, Key(f, p)) = "file"

\* q lies strictly below directory d (both canonical)
Under(d, q) == q # d /\ startsWith(q, IF d = SLASH THEN SLASH ELSE d \o SLASH)

\* the entries whose parent directory is d: below d, with no further "/"
children(f, d) ==
  LET At(rd, from) ==
        {q \in DOMAIN f : Under(rd, q) /\ \A i \in from..Len(q) : q[i] # "/"}
  IN  UNION {At(rd, IF rd = SLASH THEN 2 ELSE Len(rd) + 2) : rd \in {Key(f, d)}}

descendants(f, d) ==
  LET Of(rd) == {q \in DOMAIN f : Under(rd, q)} IN Of(Key(f, d))

Restrict(f, S) == [q \in S |-> f[q]]

\* the order in which readdir lists names is the filesystem's own: ascending
\* or descending in character order, as `ord` says
Alphabet ==
  << ".", "/", "0", "1", "2", "3", "4", "5", "6", "7", "8", "9",
     "A", "B", "C", "D", "E", "K", "M", "N", "O", "P", "S", "T", "W", "X",
     "\\", "_", "a", "b", "c", "d", "e", "f", "g", "h", "i", "j", "k", "l", "m",
     "n", "o", "p", "q", "r", "s", "t", "u", "v", "w", "x", "y", "z", "~" >>

CharCode(c) == CHOOSE i \in 1..Len(Alphabet) : Alphabet[i] = c

RECURSIVE Less(_, _)
Less(a, b) ==
  IF b = <<>> THEN FALSE
  ELSE IF a = <<>> THEN TRUE
  ELSE IF a[1] = b[1] THEN Less(Tail(a), Tail(b))
  ELSE CharCode(a[1]) < CharCode(b[1])

RECURSIVE Insert(_, _, _)
Insert(x, sorted, ord) ==
  IF sorted = <<>> THEN <<x>>
  ELSE IF (IF ord = "asc" THEN Less(x, sorted[1]) ELSE Less(sorted[1], x))
    THEN <<x>> \o sorted
  ELSE <<sorted[1]>> \o Insert(x, Tail(sorted), ord)

RECURSIVE SortSet(_, _)
SortSet(S, ord) ==
  IF S = {} THEN <<>>
  ELSE LET Put(x) == Insert(x, SortSet(S \ {x}, ord), ord)
       IN  Put(CHOOSE y \in S : TRUE)

\* a faulty readdir that lists nothing; C3 fails under it
readdir_none(f, d, ord) == <<>>

\* readdir(d): the names in d
readdir(f, d, ord) == SortSet({basename(q) : q \in children(f, d)}, ord)

Ok(f) == [ok |-> TRUE, fs |-> f, err |-> "none"]
Err(f, e) == [ok |-> FALSE, fs |-> f, err |-> e]

unlink(f, p) ==
  LET At(k) ==
        IF typeAt(f, k) = "none" THEN Err(f, "ENOENT")
        ELSE IF typeAt(f, k) # "file" THEN Err(f, "EISDIR")
        ELSE Ok(Restrict(f, DOMAIN f \ {k}))
  IN  At(Key(f, p))

\* the last component of the raw path, trailing "/" aside
lastComponent(p) ==
  LET Of(segs) == IF segs = <<>> THEN <<>> ELSE Last(segs)
  IN  Of(SelectSeq(SplitOn(p, {"/"}), LAMBDA x : x # <<>>))

\* a faulty rmdir that removes a directory with all it holds; C26 fails
\* under it
rmdir_recursive(f, p) ==
  IF isDirectory(f, p)
    THEN Ok(Restrict(f, {q \in DOMAIN f : q # Key(f, p) /\ ~Under(Key(f, p), q)}))
  ELSE Err(f, "ENOENT")

rmdir(f, p) ==
  LET At(k, name, inside) ==
        IF typeAt(f, k) = "none" THEN Err(f, "ENOENT")
        ELSE IF typeAt(f, k) # "dir" THEN Err(f, "ENOTDIR")
        ELSE IF name = DOT THEN Err(f, "EINVAL")
        ELSE IF name = DOTDOT THEN Err(f, "ENOTEMPTY")
        ELSE IF k = SLASH THEN Err(f, "EBUSY")
        ELSE IF inside # {} THEN Err(f, "ENOTEMPTY")
        ELSE Ok(Restrict(f, DOMAIN f \ {k}))
  IN  CHOOSE r \in {At(k, lastComponent(p), children(f, k)) : k \in {Key(f, p)}} : TRUE

\* fs.rm(p, {recursive, force: false}): lstat first; a directory without
\* `recursive` is refused (ERR_FS_EISDIR), with it the whole subtree goes
rm(f, p, recursive) ==
  LET At(k) ==
        IF typeAt(f, k) = "none" THEN Err(f, "ENOENT")
        ELSE IF typeAt(f, k) = "dir" /\ ~recursive THEN Err(f, "ERR_FS_EISDIR")
        ELSE IF k = SLASH THEN Err(f, "EBUSY")
        ELSE Ok(Restrict(f, {q \in DOMAIN f : q # k /\ ~Under(k, q)}))
  IN  At(Key(f, p))

\* every directory on the way to p, p included
RECURSIVE chain(_)
chain(p) == IF p = SLASH THEN {SLASH} ELSE {p} \cup chain(dirname(p))

\* mkdir(p, {recursive: true})
mkdirp(f, p) ==
  LET With(k, want) ==
        IF \E q \in want : typeAt(f, q) = "file"
          THEN Err(f, IF typeAt(f, k) = "file" THEN "EEXIST" ELSE "ENOTDIR")
        ELSE Ok([q \in DOMAIN f \cup want |-> IF q \in DOMAIN f THEN f[q] ELSE Dir])
      At(k) == With(k, chain(k))
  IN  At(Key(f, p))

\* rename(a, b): a and everything below it moves to b
rename(f, a, b) ==
  LET To(ra, rb, q) == rb \o SubSeq(q, Len(ra) + 1, Len(q))
      Moved(ra) == {q \in DOMAIN f : q = ra \/ Under(ra, q)}
      Result(ra, rb, moved, kept) ==
        [q \in kept \cup {To(ra, rb, o) : o \in moved} |->
           IF q \in kept THEN f[q] ELSE f[CHOOSE o \in moved : To(ra, rb, o) = q]]
      At(ra, rb, parent) ==
        IF typeAt(f, ra) = "none" THEN Err(f, "ENOENT")
        ELSE IF ra = SLASH THEN Err(f, "EBUSY")
        ELSE IF typeAt(f, parent) # "dir"
          THEN Err(f, IF typeAt(f, parent) = "file" THEN "ENOTDIR" ELSE "ENOENT")
        ELSE IF ra = rb THEN Ok(f)
        ELSE IF typeAt(f, ra) = "dir" /\ Under(ra, rb) THEN Err(f, "EINVAL")
        ELSE IF typeAt(f, ra) = "file" /\ typeAt(f, rb) = "dir" THEN Err(f, "EISDIR")
        ELSE IF typeAt(f, ra) = "dir" /\ typeAt(f, rb) = "file" THEN Err(f, "ENOTDIR")
        ELSE IF typeAt(f, rb) = "dir" /\ \E q \in DOMAIN f : Under(rb, q)
          THEN Err(f, "ENOTEMPTY")
        ELSE Ok(Result(ra, rb, Moved(ra), DOMAIN f \ (Moved(ra) \cup {rb})))
      Named(ra, rb) == At(ra, rb, dirname(rb))
  IN  Named(Key(f, a), Key(f, b))

-----------------------------------------------------------------------------
(* utils/files.ts: the empty-directory cleanup *)

Reason(code, n) == [code |-> code, n |-> n]

\* a faulty removeEmptyDirectory that removes the directory with all it
\* holds, empty or not; C6 fails under it
removeEmptyDirectory_force(f, dirPath) ==
  IF isDirectory(f, dirPath)
    THEN [removed |-> TRUE, reason |-> Reason("empty_directory_removed", 0),
          fs |-> rm(f, dirPath, TRUE).fs]
  ELSE [removed |-> FALSE, reason |-> Reason("not_a_directory", 0), fs |-> f]

\* [removed, reason, fs]
removeEmptyDirectory(f, dirPath) ==
  LET Removed(r) ==
        IF r.ok
          THEN [removed |-> TRUE, reason |-> Reason("empty_directory_removed", 0),
                fs |-> r.fs]
        ELSE [removed |-> FALSE, reason |-> Reason(r.err, 0), fs |-> f]
      At(k, entries) ==
        IF typeAt(f, k) = "none"
          THEN [removed |-> FALSE, reason |-> Reason("ENOENT", 0), fs |-> f]
        ELSE IF typeAt(f, k) # "dir"
          THEN [removed |-> FALSE, reason |-> Reason("not_a_directory", 0), fs |-> f]
        ELSE IF Cardinality(entries) > 0
          THEN [removed |-> FALSE,
                reason |-> Reason("not_empty", Cardinality(entries)), fs |-> f]
        ELSE Removed(rmdir(f, dirPath))
  IN  At(Key(f, dirPath), children(f, dirPath))

\* a faulty loop that breaks without a skipped record when a directory is
\* not removed; C17 fails under it
RECURSIVE cleanupLoop_noRecord(_, _, _, _, _)
cleanupLoop_noRecord(f, currentDir, normalizedRoot, removed, skipped) ==
  LET After(result) ==
        IF result.removed
          THEN cleanupLoop_noRecord(result.fs, dirname(currentDir), normalizedRoot,
                                    Append(removed, currentDir), skipped)
        ELSE [removed |-> removed, skipped |-> skipped, fs |-> f]
  IN  IF ~(currentDir # <<>> /\ currentDir # SLASH /\ currentDir # normalizedRoot)
        THEN [removed |-> removed, skipped |-> skipped, fs |-> f]
      ELSE IF ~startsWith(currentDir, normalizedRoot)
        THEN [removed |-> removed,
              skipped |-> Append(skipped, [path |-> currentDir,
                                           reason |-> Reason("outside_root_boundary", 0)]),
              fs |-> f]
      ELSE After(removeEmptyDirectory(f, currentDir))

\* the while loop of cleanupEmptyDirectories, from currentDir on
RECURSIVE cleanupLoop(_, _, _, _, _)
cleanupLoop(f, currentDir, normalizedRoot, removed, skipped) ==
  LET After(result) ==
        IF result.removed
          THEN cleanupLoop(result.fs, dirname(currentDir), normalizedRoot,
                           Append(removed, currentDir), skipped)
        ELSE [removed |-> removed,
              skipped |-> Append(skipped, [path |-> currentDir,
                                           reason |-> result.reason]),
              fs |-> f]
  IN  IF ~(currentDir # <<>> /\ currentDir # SLASH /\ currentDir # normalizedRoot)
        THEN [removed |-> removed, skipped |-> skipped, fs |-> f]
      ELSE IF ~startsWith(currentDir, normalizedRoot)
        THEN [removed |-> removed,
              skipped |-> Append(skipped, [path |-> currentDir,
                                           reason |-> Reason("outside_root_boundary", 0)]),
              fs |-> f]
      ELSE After(removeEmptyDirectory(f, currentDir))

\* a faulty cleanupEmptyDirectories that drops its boundary; C5 fails under it
cleanupEmptyDirectories_unbounded(f, sourcePath, rootBoundary) ==
  cleanupLoop(f, sourcePath, <<>>, <<>>, <<>>)

\* [removed, skipped, fs]
cleanupEmptyDirectories(f, sourcePath, rootBoundary) ==
  cleanupLoop(f, sourcePath,
              IF endsWith(rootBoundary, SLASH)
                THEN SubSeq(rootBoundary, 1, Len(rootBoundary) - 1)
              ELSE rootBoundary,
              <<>>, <<>>)

-----------------------------------------------------------------------------
(* utils/safety.ts: previewDeletion *)

Item(path, type, size) == [path |-> path, type |-> type, size |-> size]

RECURSIVE collectItems(_, _, _)
collectItems(f, dirPath, ord) ==
  LET One(fullPath) ==
        IF typeAt(f, fullPath) = "dir"
          THEN collectItems(f, fullPath, ord) \o <<Item(fullPath, "directory", 0)>>
        ELSE IF typeAt(f, fullPath) = "file"
          THEN <<Item(fullPath, "file", f[fullPath].size)>>
        ELSE <<>>
      RECURSIVE Walk(_, _)
      Walk(entries, i) ==
        IF i > Len(entries) THEN <<>>
        ELSE One(join(dirPath, entries[i])) \o Walk(entries, i + 1)
  IN  IF ~isDirectory(f, dirPath) THEN <<>> ELSE Walk(readdir(f, dirPath, ord), 1)

previewDeletion(f, targetPath, recursive, ord) ==
  LET At(normalizedPath) ==
        IF typeAt(f, normalizedPath) = "none" THEN <<>>
        ELSE IF typeAt(f, normalizedPath) = "file"
          THEN <<Item(normalizedPath, "file", f[normalizedPath].size)>>
        ELSE (IF recursive THEN collectItems(f, normalizedPath, ord) ELSE <<>>)
               \o <<Item(normalizedPath, "directory", 0)>>
  IN  At(resolve(targetPath))

-----------------------------------------------------------------------------
(* tools/organize.ts.  Every tool is an operator from the filesystem and    *)
(* the arguments to a result record: `outcome` is "returned" or "threw",    *)
(* `fs` the filesystem it leaves, `cleanup` the cleanupEmptyDirectories     *)
(* call it made, if any.                                                     *)

NoCleanup ==
  [ran |-> FALSE, start |-> <<>>, boundary |-> <<>>, removed |-> <<>>, skipped |-> <<>>]
RanCleanup(start, boundary, r) ==
  [ran |-> TRUE, start |-> start, boundary |-> boundary,
   removed |-> r.removed, skipped |-> r.skipped]

Checks(scope, prot) == [withinScope |-> scope, notProtected |-> prot]

\* `n` is the number a message carries (the item count of "not empty"),
\* `itemsDeleted` is 0 where the code leaves the field out
DeleteResult(f, outcome, executed, message, n, checks, preview, itemsDeleted, cleanup) ==
  [outcome |-> outcome, executed |-> executed, message |-> message, n |-> n,
   safetyChecks |-> checks, preview |-> preview,
   cleanedDirectories |-> cleanup.removed, itemsDeleted |-> itemsDeleted,
   cleanup |-> cleanup, fs |-> f]

Blocked(f, safetyCheck) ==
  DeleteResult(f, "returned", FALSE, safetyCheck.reason, 0,
               Checks(safetyCheck.reason # "OUTSIDE_ALLOWED_SCOPE",
                      safetyCheck.reason # "PROTECTED_PATH"
                        /\ safetyCheck.reason # "PROTECTED_NAME"),
               <<>>, 0, NoCleanup)

Threw(f, message, n) ==
  DeleteResult(f, "threw", FALSE, message, n, Checks(TRUE, TRUE), <<>>, 0, NoCleanup)

\* a faulty deleteFileTool that unlinks first and asks the policy afterwards;
\* C11 fails under it
deleteFileTool_unlinkFirst(config, f, inputPath, preview, cleanupEmpty, ord) ==
  LET Checked(gone, safetyCheck) ==
        IF ~gone.ok THEN Threw(f, gone.err, 0)
        ELSE IF ~safetyCheck.safe THEN Blocked(gone.fs, safetyCheck)
        ELSE DeleteResult(gone.fs, "returned", TRUE, "Successfully deleted", 0,
                          Checks(TRUE, TRUE), <<>>, 0, NoCleanup)
      At(normalizedPath) ==
        Checked(unlink(f, normalizedPath), validateDeletion(config, normalizedPath))
  IN  At(resolve(inputPath))

deleteFileTool(config, f, inputPath, preview, cleanupEmpty, ord) ==
  LET Cleaned(gone, sourceDir, rootBoundary, result) ==
        DeleteResult(result.fs, "returned", TRUE, "Successfully deleted", 0,
                     Checks(TRUE, TRUE), <<>>, 0,
                     RanCleanup(sourceDir, rootBoundary, result))
      Deleted(gone, sourceDir, rootBoundary) ==
        IF ~gone.ok THEN Threw(f, gone.err, 0)
        ELSE IF cleanupEmpty
          THEN Cleaned(gone, sourceDir, rootBoundary,
                       cleanupEmptyDirectories(gone.fs, sourceDir, rootBoundary))
        ELSE DeleteResult(gone.fs, "returned", TRUE, "Successfully deleted", 0,
                          Checks(TRUE, TRUE), <<>>, 0, NoCleanup)
      In(normalizedPath, sourceDir) ==
        Deleted(unlink(f, normalizedPath), sourceDir, dirname(sourceDir))
      Checked(normalizedPath, safetyCheck) ==
        IF safetyCheck.threw THEN Threw(f, safetyCheck.reason, 0)
        ELSE IF ~safetyCheck.safe THEN Blocked(f, safetyCheck)
        ELSE IF typeAt(f, normalizedPath) = "none" THEN Threw(f, "ENOENT", 0)
        ELSE IF typeAt(f, normalizedPath) # "file" THEN Threw(f, "Path is not a file", 0)
        ELSE IF preview
          THEN DeleteResult(f, "returned", FALSE, "PREVIEW", 0, Checks(TRUE, TRUE),
                            previewDeletion(f, normalizedPath, FALSE, ord), 0, NoCleanup)
        ELSE In(normalizedPath, dirname(normalizedPath))
      At(normalizedPath) ==
        Checked(normalizedPath, validateDeletion(config, normalizedPath))
  IN  At(resolve(inputPath))

\* a faulty gate that never asks for the confirmation; C2 fails under it
requiresConfirmation_never(recursive, confirmRecursive) == FALSE

\* the second gate of a recursive deletion: `recursive && !confirmRecursive`
requiresConfirmation(recursive, confirmRecursive) == recursive /\ ~confirmRecursive

\* a faulty deleteDirectoryTool that looks at `preview` only after the removal;
\* C12 fails under it
deleteDirectoryTool_previewLate(config, f, inputPath, preview, recursive, confirmRecursive, ord) ==
  LET Deleted(gone, previewItems) ==
        IF ~gone.ok THEN Threw(f, gone.err, 0)
        ELSE IF preview
          THEN DeleteResult(gone.fs, "returned", FALSE, "PREVIEW", 0, Checks(TRUE, TRUE),
                            previewItems, 0, NoCleanup)
        ELSE DeleteResult(gone.fs, "returned", TRUE, "Successfully deleted directory", 0,
                          Checks(TRUE, TRUE), <<>>, Len(previewItems), NoCleanup)
      Checked(normalizedPath, safetyCheck) ==
        IF safetyCheck.threw THEN Threw(f, safetyCheck.reason, 0)
        ELSE IF ~safetyCheck.safe THEN Blocked(f, safetyCheck)
        ELSE IF requiresConfirmation(recursive, confirmRecursive)
          THEN DeleteResult(f, "returned", FALSE, "BLOCKED: requires confirmRecursive", 0,
                            Checks(TRUE, TRUE), <<>>, 0, NoCleanup)
        ELSE IF typeAt(f, normalizedPath) # "dir"
          THEN Threw(f, "Path is not a directory", 0)
        ELSE Deleted(rm(f, normalizedPath, recursive),
                     previewDeletion(f, normalizedPath, recursive, ord))
      At(normalizedPath) ==
        Checked(normalizedPath, validateDeletion(config, normalizedPath))
  IN  At(resolve(inputPath))

deleteDirectoryTool(config, f, inputPath, preview, recursive, confirmRecursive, ord) ==
  LET Deleted(gone, previewItems) ==
        IF ~gone.ok THEN Threw(f, gone.err, 0)
        ELSE DeleteResult(gone.fs, "returned", TRUE, "Successfully deleted directory", 0,
                          Checks(TRUE, TRUE), <<>>, Len(previewItems), NoCleanup)
      Listed(normalizedPath, previewItems, entries) ==
        IF preview
          THEN DeleteResult(f, "returned", FALSE, "PREVIEW", 0, Checks(TRUE, TRUE),
                            previewItems, 0, NoCleanup)
        ELSE IF ~recursive /\ Len(entries) > 0
          THEN Threw(f, "Directory is not empty", Len(entries))
        ELSE Deleted(rm(f, normalizedPath, recursive), previewItems)
      Checked(normalizedPath, safetyCheck) ==
        IF safetyCheck.threw THEN Threw(f, safetyCheck.reason, 0)
        ELSE IF ~safetyCheck.safe THEN Blocked(f, safetyCheck)
        ELSE IF requiresConfirmation(recursive, confirmRecursive)
          THEN DeleteResult(f, "returned", FALSE, "BLOCKED: requires confirmRecursive", 0,
                            Checks(TRUE, TRUE), <<>>, 0, NoCleanup)
        ELSE IF typeAt(f, normalizedPath) = "none" THEN Threw(f, "ENOENT", 0)
        ELSE IF typeAt(f, normalizedPath) # "dir"
          THEN Threw(f, "Path is not a directory", 0)
        ELSE Listed(normalizedPath,
                    previewDeletion(f, normalizedPath, recursive, ord),
                    readdir(f, normalizedPath, ord))
      At(normalizedPath) ==
        Checked(normalizedPath, validateDeletion(config, normalizedPath))
  IN  At(resolve(inputPath))

MoveResult(f, outcome, message, files, cleanup) ==
  [outcome |-> outcome, message |-> message, files |-> files,
   cleanedDirectories |-> cleanup.removed, skippedDirectories |-> cleanup.skipped,
   cleanup |-> cleanup, fs |-> f]

moveFileTool(f, source, destination, cleanupEmpty) ==
  LET Cleaned(sourceDir, rootBoundary, result) ==
        MoveResult(result.fs, "returned", "Successfully moved", <<>>,
                   RanCleanup(sourceDir, rootBoundary, result))
      Moved(made, moved, sourceDir, rootBoundary) ==
        IF ~moved.ok THEN MoveResult(made.fs, "threw", moved.err, <<>>, NoCleanup)
        ELSE IF cleanupEmpty
          THEN Cleaned(sourceDir, rootBoundary,
                       cleanupEmptyDirectories(moved.fs, sourceDir, rootBoundary))
        ELSE MoveResult(moved.fs, "returned", "Successfully moved", <<>>, NoCleanup)
      Made(made, sourceDir) ==
        IF ~made.ok THEN MoveResult(f, "threw", made.err, <<>>, NoCleanup)
        ELSE Moved(made, rename(made.fs, source, destination), sourceDir, dirname(sourceDir))
  IN  Made(mkdirp(f, dirname(destination)), dirname(source))

getExtension(filePath) == toLowerCase(extname(filePath))

Digit(d) == <<"0", "1", "2", "3", "4", "5", "6", "7", "8", "9">>[d + 1]

RECURSIVE String(_)
String(n) == IF n < 10 THEN <<Digit(n)>> ELSE String(n \div 10) \o <<Digit(n % 10)>>

padStart2(s) == IF Len(s) < 2 THEN <<"0">> \o s ELSE s

subFolderOf(criteria, fullPath, stats) ==
  LET Ext(ext) ==
        IF ext # <<>> THEN toUpperCase(slice(ext, 1))
        ELSE <<"N","O","_","E","X","T","E","N","S","I","O","N">>
  IN  CASE criteria = "extension" -> Ext(getExtension(fullPath))
        [] criteria = "date" ->
             String(stats.mtime[1]) \o <<"-">> \o padStart2(String(stats.mtime[2] + 1))
        [] criteria = "size" ->
             IF stats.size < 1024 THEN <<"t","i","n","y">>
             ELSE IF stats.size < 1024 * 1024 THEN <<"s","m","a","l","l">>
             ELSE IF stats.size < 1024 * 1024 * 100 THEN <<"m","e","d","i","u","m">>
             ELSE <<"l","a","r","g","e">>

\* the for loop of organizeByTypeTool from entry i on: [ok, err, fs, files]
RECURSIVE organizeLoop(_, _, _, _, _, _, _)
organizeLoop(f, source, destination, criteria, entries, i, files) ==
  LET Moved(made, moved, destPath) ==
        IF ~moved.ok
          THEN [ok |-> FALSE, err |-> moved.err, fs |-> made.fs, files |-> files]
        ELSE organizeLoop(moved.fs, source, destination, criteria, entries, i + 1,
                          Append(files, [file |-> entries[i], movedTo |-> destPath]))
      Made(made, fullPath, destPath) ==
        IF ~made.ok THEN [ok |-> FALSE, err |-> made.err, fs |-> f, files |-> files]
        ELSE Moved(made, rename(made.fs, fullPath, destPath), destPath)
      Into(fullPath, destFolder) ==
        Made(mkdirp(f, destFolder), fullPath, join(destFolder, entries[i]))
      One(fullPath) ==
        IF typeAt(f, fullPath) = "none"
          THEN [ok |-> FALSE, err |-> "ENOENT", fs |-> f, files |-> files]
        ELSE IF typeAt(f, fullPath) # "file"
          THEN organizeLoop(f, source, destination, criteria, entries, i + 1, files)
        ELSE Into(fullPath, join(destination, subFolderOf(criteria, fullPath, f[fullPath])))
  IN  IF i > Len(entries) THEN [ok |-> TRUE, err |-> "none", fs |-> f, files |-> files]
      ELSE One(join(source, entries[i]))

organizeByTypeTool(f, source, destination, criteria, cleanupEmpty, ord) ==
  LET Cleaned(done, rootBoundary, result) ==
        MoveResult(result.fs, "returned", "organized", done.files,
                   RanCleanup(source, rootBoundary, result))
      Done(done, rootBoundary) ==
        IF ~done.ok THEN MoveResult(done.fs, "threw", done.err, <<>>, NoCleanup)
        ELSE IF cleanupEmpty
          THEN Cleaned(done, rootBoundary,
                       cleanupEmptyDirectories(done.fs, source, rootBoundary))
        ELSE MoveResult(done.fs, "returned", "organized", done.files, NoCleanup)
  IN  IF ~exists(f, source) THEN MoveResult(f, "threw", "ENOENT", <<>>, NoCleanup)
      ELSE IF ~isDirectory(f, source) THEN MoveResult(f, "threw", "ENOTDIR", <<>>, NoCleanup)
      ELSE Done(organizeLoop(f, source, destination, criteria,
                             readdir(f, source, ord), 1, <<>>),
                dirname(source))

-----------------------------------------------------------------------------
(* tools/search.ts: list_directory (without a glob pattern), find_duplicates *)

\* createHash("md5").update(content).digest("hex"): a function of the content
\* alone, from unboundedly many byte strings onto a finite set of digests
DigestSpace == 3
md5(data) == (data[1] + data[2]) % DigestSpace

\* stat(p) follows symbolic links: it throws ENOENT on a link whose target
\* is missing
statFails(f, p) == typeAt(f, Key(f, p)) \in {"none", "link"}

\* readFile(p) throws EACCES on a file the process may not read
readFails(f, p) == ~isFile(f, p) \/ "mode" \in DOMAIN f[Key(f, p)]

getFileHash(f, filePath) ==
  IF ~readFails(f, filePath) THEN [ok |-> TRUE, hash |-> md5(f[Key(f, filePath)].data)]
  ELSE [ok |-> FALSE, hash |-> 0]

\* [ok, entries]: ok is FALSE when readdir or a stat throws, here or in a
\* nested call
RECURSIVE listDirectoryTool(_, _, _, _)
listDirectoryTool(f, path, recursive, ord) ==
  LET Entry(name, fullPath, node) ==
        [name |-> name, path |-> fullPath,
         type |-> IF node.type = "dir" THEN "directory" ELSE "file",
         size |-> IF node.type = "file" THEN node.size ELSE 0]
      RECURSIVE Walk(_, _)
      Joined(entry, sub, rest) ==
        IF ~rest.ok THEN rest
        ELSE [ok |-> TRUE, entries |-> <<entry>> \o sub.entries \o rest.entries]
      Pushed(entries, i, entry, sub) ==
        IF ~sub.ok THEN sub ELSE Joined(entry, sub, Walk(entries, i + 1))
      One(entries, i, fullPath) ==
        IF statFails(f, fullPath) THEN [ok |-> FALSE, entries |-> <<>>]
        ELSE Pushed(entries, i, Entry(entries[i], fullPath, f[Key(f, fullPath)]),
                    IF recursive /\ isDirectory(f, fullPath)
                      THEN listDirectoryTool(f, fullPath, TRUE, ord)
                    ELSE [ok |-> TRUE, entries |-> <<>>])
      Walk(entries, i) ==
        IF i > Len(entries) THEN [ok |-> TRUE, entries |-> <<>>]
        ELSE One(entries, i, join(path, entries[i]))
  IN  IF ~isDirectory(f, path) THEN [ok |-> FALSE, entries |-> <<>>]
      ELSE Walk(readdir(f, path, ord), 1)

\* hashMap after the entries from i on are added: a sequence of
\* [hash, files, size] in insertion order
RECURSIVE hashEntries(_, _, _, _)
hashEntries(f, entries, i, hashMap) ==
  LET Put(entry, h, at) ==
        IF entry.type # "file" \/ ~h.ok THEN hashEntries(f, entries, i + 1, hashMap)
        ELSE IF at # {}
          THEN hashEntries(f, entries, i + 1,
                 [hashMap EXCEPT ![CHOOSE k \in at : TRUE].files = Append(@, entry.path)])
        ELSE hashEntries(f, entries, i + 1,
                 Append(hashMap, [hash |-> h.hash, files |-> <<entry.path>>,
                                  size |-> entry.size]))
      Hashed(entry, h) ==
        Put(entry, h, {k \in 1..Len(hashMap) : hashMap[k].hash = h.hash})
  IN  IF i > Len(entries) THEN hashMap
      ELSE Hashed(entries[i], getFileHash(f, entries[i].path))

\* a faulty findDuplicatesTool that reports every digest, also those of one
\* file; C7 fails under it
findDuplicatesTool_unfiltered(f, path, recursive, ord) ==
  LET Grouped(listed) ==
        IF ~listed.ok THEN [outcome |-> "threw", groups |-> <<>>]
        ELSE [outcome |-> "returned",
              groups |-> hashEntries(f, listed.entries, 1, <<>>)]
  IN  Grouped(listDirectoryTool(f, path, recursive, ord))

\* [outcome, groups]
findDuplicatesTool(f, path, recursive, ord) ==
  LET Grouped(listed) ==
        IF ~listed.ok THEN [outcome |-> "threw", groups |-> <<>>]
        ELSE [outcome |-> "returned",
              groups |-> SelectSeq(hashEntries(f, listed.entries, 1, <<>>),
                                   LAMBDA g : Len(g.files) > 1)]
  IN  Grouped(listDirectoryTool(f, path, recursive, ord))

-----------------------------------------------------------------------------
(* The server: configurations, trees and the arguments of the calls *)

\* the paths of the tree the tools work on
ToolPath ==
  [home |-> HOME,
   projects |-> <<"/","h","o","m","e","/","u","/","p","r","o","j","e","c","t","s">>,
   tmp |-> <<"/","h","o","m","e","/","u","/","p","r","o","j","e","c","t","s","/","t","m","p">>,
   a |-> <<"/","h","o","m","e","/","u","/","p","r","o","j","e","c","t","s","/","t","m","p","/","a",".","t","x","t">>,
   b |-> <<"/","h","o","m","e","/","u","/","p","r","o","j","e","c","t","s","/","t","m","p","/","b",".","m","d">>,
   repo |-> <<"/","h","o","m","e","/","u","/","p","r","o","j","e","c","t","s","/","r","e","p","o">>,
   git |-> <<"/","h","o","m","e","/","u","/","p","r","o","j","e","c","t","s","/","r","e","p","o","/",".","g","i","t">>,
   gitconfig |-> <<"/","h","o","m","e","/","u","/","p","r","o","j","e","c","t","s","/","r","e","p","o","/",".","g","i","t","/","c","o","n","f","i","g">>,
   keep |-> <<"/","h","o","m","e","/","u","/","p","r","o","j","e","c","t","s","/","k","e","e","p">>,
   k |-> <<"/","h","o","m","e","/","u","/","p","r","o","j","e","c","t","s","/","k","e","e","p","/","k",".","t","x","t">>,
   docs |-> <<"/","h","o","m","e","/","u","/","D","o","c","u","m","e","n","t","s">>,
   d |-> <<"/","h","o","m","e","/","u","/","D","o","c","u","m","e","n","t","s","/","d",".","m","d">>,
   \* a user-critical protected path whose name is protected too
   ssh |-> <<"/","h","o","m","e","/","u","/",".","s","s","h">>,
   \* an entry of /home/u whose name is `projects\x` (one segment on POSIX)
   sibling |-> <<"/","h","o","m","e","/","u","/","p","r","o","j","e","c","t","s","\\","x">>,
   out |-> <<"/","h","o","m","e","/","u","/","p","r","o","j","e","c","t","s","/","o","u","t">>]

ConfigOf(allowed, paths, patterns) ==
  [state |-> "ok",
   json |-> [allowedPaths |-> allowed, additionalProtectedPaths |-> paths,
             additionalProtectedPatterns |-> patterns]]

\* what the config file on disk may hold
OnDisk ==
  [missing |-> [state |-> "missing", json |-> EmptyConfig],
   malformed |-> [state |-> "malformed", json |-> EmptyConfig],
   \* {"allowedPaths": []}
   emptyList |-> ConfigOf(<<>>, <<>>, <<>>),
   \* {"allowedPaths": ["/home/u/projects"]}
   projects |-> ConfigOf(<<ToolPath.projects>>, <<>>, <<>>),
   \* the README's example: home-relative paths, a protected folder, two patterns
   readme |->
     ConfigOf(<<<<"~","/","p","r","o","j","e","c","t","s">>>>, <<<<"~","/","p","r","o","j","e","c","t","s","/","k","e","e","p">>>>,
              << [start |-> TRUE, body |-> Lits(<<"b","a","c","k","u","p">>), end |-> FALSE],
                 [start |-> FALSE, body |-> Lits(<<".","b","a","k">>), end |-> TRUE] >>),
   \* {"allowedPaths": ["~/projects"], "additionalProtectedPatterns": ["*.bak"]}
   badPattern |->
     ConfigOf(<<<<"~","/","p","r","o","j","e","c","t","s">>>>, <<>>,
              << [start |-> FALSE,
                  body |-> <<[k |-> "star", c |-> "*"]>> \o Lits(<<".","b","a","k">>),
                  end |-> FALSE] >>),
   \* {"allowedPaths": ["/home"]}
   homeParent |-> ConfigOf(<<<<"/","h","o","m","e">>>>, <<>>, <<>>),
   \* {"allowedPaths": ["/"]}
   root |-> ConfigOf(<<SLASH>>, <<>>, <<>>),
   \* {"allowedPaths": ["/data"]}
   data |-> ConfigOf(<<<<"/","d","a","t","a">>>>, <<>>, <<>>)]

Null == <<>>
NoCall == [op |-> "none"]

\* the tree the tools work on
Tree0 ==
  (SLASH :> Dir) @@ (<<"/","h","o","m","e">> :> Dir) @@ (ToolPath.home :> Dir)
  @@ (ToolPath.projects :> Dir) @@ (ToolPath.tmp :> Dir)
  @@ (ToolPath.a :> File(<<1, 0>>, <<2024, 0>>))
  @@ (ToolPath.b :> File(<<2048, 0>>, <<2023, 10>>))
  @@ (ToolPath.repo :> Dir) @@ (ToolPath.git :> Dir)
  @@ (ToolPath.gitconfig :> File(<<1, 1>>, <<2024, 0>>))
  @@ (ToolPath.keep :> Dir) @@ (ToolPath.k :> File(<<0, 0>>, <<2024, 0>>))
  @@ (ToolPath.docs :> Dir) @@ (ToolPath.d :> File(<<1, 0>>, <<2024, 11>>))

Orders == {"asc", "desc"}

-----------------------------------------------------------------------------
(* The calls.  A call that reads the policy loads the configuration if it    *)
(* is not loaded yet (loadConfig caches it).  `last` keeps the arguments,    *)
(* the filesystem before the call and the result.                            *)

MaxCalls == 2

Strip(r) == [k \in DOMAIN r \ {"fs"} |-> r[k]]

DeleteDirPaths == {ToolPath.tmp, ToolPath.repo, ToolPath.git, ToolPath.keep}
Criteria == {"extension", "date", "size"}

DeleteFile(path, preview, cleanupEmpty, ord) ==
  /\ calls < MaxCalls
  /\ \E config \in {loadConfig(loadedConfig, configFile)} :
    \E r \in {deleteFileTool(config, fs, path, preview, cleanupEmpty, ord)} :
        /\ fs' = r.fs
        /\ calls' = calls + 1
        /\ loadedConfig' = <<config>>
        /\ last' = [op |-> "delete_file", path |-> path, preview |-> preview,
                    cleanupEmpty |-> cleanupEmpty, config |-> config,
                    before |-> fs, res |-> Strip(r)]
        /\ UNCHANGED configFile

DeleteDirectory(path, preview, recursive, confirmRecursive, ord) ==
  /\ calls < MaxCalls
  /\ \E config \in {loadConfig(loadedConfig, configFile)} :
    \E r \in {deleteDirectoryTool(config, fs, path, preview, recursive, confirmRecursive, ord)} :
        /\ fs' = r.fs
        /\ calls' = calls + 1
        /\ loadedConfig' = <<config>>
        /\ last' = [op |-> "delete_directory", path |-> path, preview |-> preview,
                    recursive |-> recursive, confirmRecursive |-> confirmRecursive,
                    config |-> config, before |-> fs, res |-> Strip(r)]
        /\ UNCHANGED configFile

MoveFile(source, destination, cleanupEmpty) ==
  /\ calls < MaxCalls
  /\ \E r \in {moveFileTool(fs, source, destination, cleanupEmpty)} :
        /\ fs' = r.fs
        /\ calls' = calls + 1
        /\ last' = [op |-> "move_file", source |-> source, destination |-> destination,
                    cleanupEmpty |-> cleanupEmpty,
                    config |-> loadConfig(loadedConfig, configFile),
                    before |-> fs, res |-> Strip(r)]
        /\ UNCHANGED <<configFile, loadedConfig>>

OrganizeByType(source, destination, criteria, cleanupEmpty, ord) ==
  /\ calls < MaxCalls
  /\ \E r \in {organizeByTypeTool(fs, source, destination, criteria, cleanupEmpty, ord)} :
        /\ fs' = r.fs
        /\ calls' = calls + 1
        /\ last' = [op |-> "organize_by_type", source |-> source,
                    destination |-> destination, criteria |-> criteria,
                    cleanupEmpty |-> cleanupEmpty,
                    config |-> loadConfig(loadedConfig, configFile),
                    before |-> fs, res |-> Strip(r)]
        /\ UNCHANGED <<configFile, loadedConfig>>

ToolConfigFiles == {OnDisk.missing, OnDisk.readme}

Init ==
  /\ configFile \in ToolConfigFiles
  /\ loadedConfig = Null
  /\ fs = Tree0
  /\ last = NoCall
  /\ calls = 0

Next ==
  \/ \E path \in {ToolPath.a, ToolPath.gitconfig, ToolPath.k, ToolPath.d,
                  ToolPath.projects, <<"/","h","o","m","e","/","u","/","p","r","o","j","e","c","t","s","/","t","m","p","/",".",".","/","t","m","p","/","b",".","m","d">>},
        preview \in BOOLEAN, cleanupEmpty \in BOOLEAN :
       DeleteFile(path, preview, cleanupEmpty, "asc")
  \/ \E path \in DeleteDirPaths, preview \in BOOLEAN, recursive \in BOOLEAN,
        confirmRecursive \in BOOLEAN :
       DeleteDirectory(path, preview, recursive, confirmRecursive, "asc")
  \/ \E m \in { <<ToolPath.a, <<"/","h","o","m","e","/","u","/","p","r","o","j","e","c","t","s","/","o","u","t","/","a",".","t","x","t">>>>,
                <<ToolPath.d, <<"/","h","o","m","e","/","u","/","p","r","o","j","e","c","t","s","/","t","m","p","/","d",".","m","d">>>>,
                <<ToolPath.k, <<"/","h","o","m","e","/","u","/","p","r","o","j","e","c","t","s","/","t","m","p","/","k",".","t","x","t">>>> },
        cleanupEmpty \in BOOLEAN :
       MoveFile(m[1], m[2], cleanupEmpty)
  \/ \E source \in {ToolPath.tmp, ToolPath.docs}, destination \in {ToolPath.out},
        criteria \in Criteria, cleanupEmpty \in BOOLEAN :
       OrganizeByType(source, destination, criteria, cleanupEmpty, "asc")

Spec == Init /\ [][Next]_vars

-----------------------------------------------------------------------------
(* The path policy on its own: validateDeletion queried under every kind of  *)
(* configuration file, the file edited and the cache dropped in between.     *)

PolicyConfigFiles ==
  {OnDisk.missing, OnDisk.malformed, OnDisk.emptyList, OnDisk.projects, OnDisk.readme, OnDisk.homeParent,
   OnDisk.root, OnDisk.badPattern}

\* the file as it was when reloadConfig was last called, if no query has
\* been made since (<<>> otherwise)
ReloadedFile ==
  IF last.op = "reloadConfig" THEN <<last.file>>
  ELSE IF last.op = "edit_config" THEN last.reloaded
  ELSE <<>>

\* a policy query; `cache` is loadedConfig as the query found it, `reloaded`
\* as ReloadedFile says.  Only the queries count as calls.
ValidateDeletion(path) ==
  /\ calls < MaxCalls
  /\ \E config \in {loadConfig(loadedConfig, configFile)} :
        /\ loadedConfig' = <<config>>
        /\ last' = [op |-> "validateDeletion", path |-> path, config |-> config,
                    cache |-> loadedConfig, reloaded |-> ReloadedFile,
                    res |-> validateDeletion(config, path)]
        /\ calls' = calls + 1
        /\ UNCHANGED <<configFile, fs>>

\* the user edits config.json
EditConfigFile(file) ==
  /\ calls < MaxCalls
  /\ file # configFile
  /\ configFile' = file
  /\ last' = [op |-> "edit_config", reloaded |-> ReloadedFile]
  /\ UNCHANGED <<loadedConfig, fs, calls>>

\* reloadConfig: drops the cached configuration and loads the file anew
reloadConfig ==
  /\ calls < MaxCalls
  /\ loadedConfig' = <<loadConfig(Null, configFile)>>
  /\ last' = [op |-> "reloadConfig", file |-> configFile]
  /\ UNCHANGED <<configFile, fs, calls>>

InitPolicy ==
  /\ configFile \in PolicyConfigFiles
  /\ loadedConfig = Null
  /\ fs = Tree0
  /\ last = NoCall
  /\ calls = 0

NextPolicy ==
  \/ \E path \in { SLASH, <<"/","h","o","m","e">>, ToolPath.home, ToolPath.projects, ToolPath.tmp,
                   ToolPath.a, ToolPath.keep, ToolPath.k, ToolPath.git,
                   ToolPath.docs, ToolPath.ssh, ToolPath.sibling, <<"/","e","t","c">>,
                   <<"/","h","o","m","e","/","u","/","p","r","o","j","e","c","t","s","2","/","a",".","t","x","t">>, <<"p","r","o","j","e","c","t","s","/","t","m","p","/","a",".","t","x","t">> } :
       ValidateDeletion(path)
  \/ \E file \in PolicyConfigFiles : EditConfigFile(file)
  \/ reloadConfig

SpecPolicy == InitPolicy /\ [][NextPolicy]_vars

-----------------------------------------------------------------------------
(* The cleanup walk on its own, and under the three tools that call it, on   *)
(* trees of /data whose directories are empty or not.                        *)

\* the paths of the trees of /data
DataPath ==
  [data |-> <<"/","d","a","t","a">>,
   foo |-> <<"/","d","a","t","a","/","f","o","o">>,
   x |-> <<"/","d","a","t","a","/","f","o","o","/","x">>,
   y |-> <<"/","d","a","t","a","/","f","o","o","/","x","/","y">>,
   f1 |-> <<"/","d","a","t","a","/","f","o","o","/","x","/","f","1",".","t","x","t">>,
   f2 |-> <<"/","d","a","t","a","/","f","o","o","/","f","2",".","m","d">>,
   foobar |-> <<"/","d","a","t","a","/","f","o","o","b","a","r">>,
   bx |-> <<"/","d","a","t","a","/","f","o","o","b","a","r","/","x">>,
   f3 |-> <<"/","d","a","t","a","/","f","o","o","b","a","r","/","x","/","f","3",".","t","x","t">>,
   out |-> <<"/","d","a","t","a","/","o","u","t">>]

CleanupDirs ==
  (SLASH :> Dir) @@ (DataPath.data :> Dir) @@ (DataPath.foo :> Dir) @@ (DataPath.x :> Dir) @@ (DataPath.y :> Dir)
  @@ (DataPath.foobar :> Dir) @@ (DataPath.bx :> Dir)

CleanupFiles == {DataPath.f1, DataPath.f2, DataPath.f3}

\* the directories of /data, with any of the three files
CleanupTrees ==
  { [p \in DOMAIN CleanupDirs \cup files |->
       IF p \in files THEN File(<<1, 0>>, <<2024, 0>>) ELSE CleanupDirs[p]]
    : files \in SUBSET CleanupFiles }

\* a call of cleanupEmptyDirectories(start, boundary)
Cleanup(start, boundary) ==
  /\ calls < MaxCalls
  /\ \E r \in {cleanupEmptyDirectories(fs, start, boundary)} :
        /\ fs' = r.fs
        /\ last' = [op |-> "cleanupEmptyDirectories", before |-> fs,
                    res |-> [cleanup |-> RanCleanup(start, boundary, r)]]
        /\ calls' = calls + 1
        /\ UNCHANGED <<configFile, loadedConfig>>

InitCleanup ==
  /\ configFile = OnDisk.data
  /\ loadedConfig = Null
  /\ fs \in CleanupTrees
  /\ last = NoCall
  /\ calls = 0

\* the walk is started at canonical paths: a directory, a file, a missing
\* entry, the root; organize_by_type hands its source to the walk as the
\* caller spelt it, move_file the directory of its source as the caller
\* spelt it
NextCleanup ==
  \/ \E start \in {DataPath.y, DataPath.x, DataPath.bx, DataPath.f1,
                   <<"/","d","a","t","a","/","g","o","n","e">>, SLASH},
        boundary \in {DataPath.data, DataPath.foo, DataPath.x, DataPath.y,
                      DataPath.foobar, SLASH, <<"/","d","a","t","a","/","f","o","o","/">>, <<"/","d","a","t","a","/">>} :
       Cleanup(start, boundary)
  \/ \E path \in CleanupFiles, cleanupEmpty \in BOOLEAN :
       DeleteFile(path, FALSE, cleanupEmpty, "asc")
  \/ \E path \in CleanupFiles \cup {<<"/","d","a","t","a","/","f","o","o","b","a","r","/","x","/",".","/","f","3",".","t","x","t">>},
        cleanupEmpty \in BOOLEAN :
       MoveFile(path, join(DataPath.out, basename(path)), cleanupEmpty)
  \/ \E source \in {DataPath.x, DataPath.bx, <<"/","d","a","t","a","/","f","o","o","b","a","r","/","x","/">>},
        criteria \in Criteria, cleanupEmpty \in BOOLEAN :
       OrganizeByType(source, DataPath.out, criteria, cleanupEmpty, "asc")

SpecCleanup == InitCleanup /\ [][NextCleanup]_vars

-----------------------------------------------------------------------------
(* find_duplicates over a directory of files of every content                *)

\* the file contents <<n, k>>: n in 1..MaxSize, k in 0..MaxVariant
MaxSize == 1
MaxVariant == 3

Contents == {<<n, k>> : n \in 1..MaxSize, k \in 0..MaxVariant}

\* the paths of the scanned directory
ScanPath ==
  [scan |-> <<"/","s","c","a","n">>,
   a |-> <<"/","s","c","a","n","/","a",".","b","i","n">>,
   b |-> <<"/","s","c","a","n","/","b",".","b","i","n">>,
   c |-> <<"/","s","c","a","n","/","c",".","b","i","n">>,
   sub |-> <<"/","s","c","a","n","/","s","u","b">>,
   d |-> <<"/","s","c","a","n","/","s","u","b","/","d",".","b","i","n">>,
   l |-> <<"/","s","c","a","n","/","l",".","l","n","k">>,
   sl |-> <<"/","s","c","a","n","/","s","u","b","/","l",".","l","n","k">>]

ScanFiles == {ScanPath.a, ScanPath.b, ScanPath.c, ScanPath.d}

\* c.bin is a copy of a.bin; the other files hold any content
ScanTrees ==
  { [p \in {SLASH, ScanPath.scan, ScanPath.sub} \cup ScanFiles |->
       IF p = ScanPath.c THEN File(data[ScanPath.a], <<2024, 0>>)
       ELSE IF p \in ScanFiles THEN File(data[p], <<2024, 0>>)
       ELSE Dir]
    : data \in [ScanFiles \ {ScanPath.c} -> Contents] }

FindDuplicates(path, recursive, ord) ==
  /\ calls < MaxCalls
  /\ last' = [op |-> "find_duplicates", path |-> path, recursive |-> recursive,
              ord |-> ord, before |-> fs,
              res |-> findDuplicatesTool(fs, path, recursive, ord)]
  /\ calls' = calls + 1
  /\ UNCHANGED <<configFile, loadedConfig, fs>>

InitDup ==
  /\ configFile = OnDisk.missing
  /\ loadedConfig = Null
  /\ fs \in ScanTrees
  /\ last = NoCall
  /\ calls = 0

NextDup ==
  \E path \in {ScanPath.scan, ScanPath.sub}, recursive \in BOOLEAN, ord \in Orders :
    FindDuplicates(path, recursive, ord)

SpecDup == InitDup /\ [][NextDup]_vars

-----------------------------------------------------------------------------
(* cleanupEmptyDirectories step by step.  Every await of the walk is a step  *)
(* of its own, and another process may create entries between two steps.     *)
(* `last` holds the local variables of the call and the await it is at.      *)

\* the call stops at currentDir with this reason
Stop(w, reason) ==
  [w EXCEPT !.pc = "done",
            !.skipped = Append(@, [path |-> w.currentDir, reason |-> reason])]

\* the head of the while loop
walkLoop(w) ==
  IF ~(w.currentDir # <<>> /\ w.currentDir # SLASH /\ w.currentDir # w.normalizedRoot)
    THEN [w EXCEPT !.pc = "done"]
  ELSE IF ~startsWith(w.currentDir, w.normalizedRoot)
    THEN Stop(w, Reason("outside_root_boundary", 0))
  ELSE [w EXCEPT !.pc = "stat"]

\* await stat(dirPath)
walkStat(f, w) ==
  IF statFails(f, w.currentDir) THEN Stop(w, Reason("ENOENT", 0))
  ELSE IF ~isDirectory(f, w.currentDir) THEN Stop(w, Reason("not_a_directory", 0))
  ELSE [w EXCEPT !.pc = "readdir"]

\* await readdir(dirPath), the first and the second time
walkReaddir(f, w) ==
  LET Listed(entries) ==
        IF w.pc = "readdir"
          THEN (IF Cardinality(entries) > 0
                  THEN Stop(w, Reason("not_empty", Cardinality(entries)))
                ELSE [w EXCEPT !.pc = "recheck"])
        ELSE IF Cardinality(entries) > 0 THEN Stop(w, Reason("not_empty_on_recheck", 0))
        ELSE [w EXCEPT !.pc = "rmdir"]
  IN  IF ~exists(f, w.currentDir) THEN Stop(w, Reason("ENOENT", 0))
      ELSE IF ~isDirectory(f, w.currentDir) THEN Stop(w, Reason("ENOTDIR", 0))
      ELSE Listed(children(f, w.currentDir))

\* a faulty loop that tries the removal again when rmdir fails; C25 fails
\* under it
walkRmdir_retry(w, r) ==
  IF r.ok
    THEN [w EXCEPT !.pc = "loop", !.removed = Append(@, w.currentDir),
                   !.currentDir = dirname(w.currentDir)]
  ELSE [w EXCEPT !.pc = "loop"]

\* after await rmdir(dirPath) with outcome r: the directory is recorded and
\* the walk moves to the parent, or it stops with the error
walkRmdir(w, r) ==
  IF r.ok
    THEN [w EXCEPT !.pc = "loop", !.removed = Append(@, w.currentDir),
                   !.currentDir = dirname(w.currentDir)]
  ELSE Stop(w, Reason(r.err, 0))

\* the paths of the walked tree
WalkPath ==
  [u |-> <<"/","h","o","m","e","/","u">>,
   w |-> <<"/","h","o","m","e","/","u","/","w">>,
   a |-> <<"/","h","o","m","e","/","u","/","w","/","a">>,
   b |-> <<"/","h","o","m","e","/","u","/","w","/","a","/","b">>,
   f |-> <<"/","h","o","m","e","/","u","/","w","/","f",".","t","x","t">>]

\* /home/u/w/a/b, all empty, with or without a file in w
WalkTrees ==
  { [p \in {SLASH, <<"/","h","o","m","e">>, WalkPath.u, WalkPath.w, WalkPath.a, WalkPath.b} \cup files |->
       IF p \in files THEN File(<<1, 0>>, <<2024, 0>>) ELSE Dir]
    : files \in {{}, {WalkPath.f}} }

\* the call: lines up to the while loop
WalkCall(sourcePath, rootBoundary) ==
  /\ last = NoCall
  /\ last' = [op |-> "walk", start |-> sourcePath, boundary |-> rootBoundary,
              pc |-> "loop", currentDir |-> sourcePath,
              normalizedRoot |-> IF endsWith(rootBoundary, SLASH)
                                   THEN SubSeq(rootBoundary, 1, Len(rootBoundary) - 1)
                                 ELSE rootBoundary,
              removed |-> <<>>, skipped |-> <<>>, before |-> fs, created |-> {}]
  /\ UNCHANGED <<configFile, loadedConfig, fs, calls>>

WalkLoop ==
  /\ last.op = "walk" /\ last.pc = "loop"
  /\ \E w \in {walkLoop(last)} : last' = w
  /\ UNCHANGED <<configFile, loadedConfig, fs, calls>>

WalkStat ==
  /\ last.op = "walk" /\ last.pc = "stat"
  /\ \E w \in {walkStat(fs, last)} : last' = w
  /\ UNCHANGED <<configFile, loadedConfig, fs, calls>>

WalkReaddir ==
  /\ last.op = "walk" /\ last.pc \in {"readdir", "recheck"}
  /\ \E w \in {walkReaddir(fs, last)} : last' = w
  /\ UNCHANGED <<configFile, loadedConfig, fs, calls>>

WalkRmdir ==
  /\ last.op = "walk" /\ last.pc = "rmdir"
  /\ \E r \in {rmdir(fs, last.currentDir)} :
       /\ fs' = r.fs
       /\ last' = walkRmdir(last, r)
  /\ UNCHANGED <<configFile, loadedConfig, calls>>

\* another process creates the file n in a directory
ExternalCreate(dir) ==
  /\ calls < MaxCalls
  /\ last.op = "walk"
  /\ isDirectory(fs, dir)
  /\ ~exists(fs, join(dir, <<"n">>))
  /\ fs' = (join(dir, <<"n">>) :> File(<<1, 0>>, <<2024, 0>>)) @@ fs
  /\ last' = [last EXCEPT !.created = @ \cup {join(dir, <<"n">>)}]
  /\ calls' = calls + 1
  /\ UNCHANGED <<configFile, loadedConfig>>

InitWalk ==
  /\ configFile = OnDisk.missing
  /\ loadedConfig = Null
  /\ fs \in WalkTrees
  /\ last = NoCall
  /\ calls = 0

WalkStep == WalkLoop \/ WalkStat \/ WalkReaddir \/ WalkRmdir

\* the start is absolute, relative to the working directory, with a trailing
\* separator, with a "." segment, empty, or missing; the boundary an
\* ancestor, the same relative, with a trailing separator, empty, or no
\* ancestor of any start
NextWalk ==
  \/ \E sourcePath \in {WalkPath.b, <<"w","/","a","/","b">>, <<"/","h","o","m","e","/","u","/","w","/","a","/","b","/">>, <<"w","/","a","/",".">>, <<>>,
                        <<"/","h","o","m","e","/","u","/","g","o","n","e">>},
        rootBoundary \in {WalkPath.w, <<"w">>, <<"/","h","o","m","e","/","u","/","w","/">>, <<>>, <<"/","s","r","v">>} :
       WalkCall(sourcePath, rootBoundary)
  \/ WalkLoop
  \/ WalkStat
  \/ WalkReaddir
  \/ WalkRmdir
  \/ \E dir \in {WalkPath.a, WalkPath.b} : ExternalCreate(dir)

SpecWalk == InitWalk /\ [][NextWalk]_vars

\* an async function that is not waiting for the filesystem goes on
SpecWalkFair == SpecWalk /\ WF_vars(WalkStep)

-----------------------------------------------------------------------------
(* delete_directory on the tree with, possibly, a symbolic link in one of    *)
(* its directories                                                           *)

PreviewTrees ==
  {Tree0, Tree0 @@ (<<"/","h","o","m","e","/","u","/","p","r","o","j","e","c","t","s","/","t","m","p","/","l",".","l","n","k">> :> Link),
   Tree0 @@ (<<"/","h","o","m","e","/","u","/","p","r","o","j","e","c","t","s","/","r","e","p","o","/",".","g","i","t","/","l",".","l","n","k">> :> Link)}

InitPreview ==
  /\ configFile \in ToolConfigFiles
  /\ loadedConfig = Null
  /\ fs \in PreviewTrees
  /\ last = NoCall
  /\ calls = 0

NextPreview ==
  \E path \in DeleteDirPaths, preview \in BOOLEAN, recursive \in BOOLEAN,
     confirmRecursive \in BOOLEAN, ord \in Orders :
    DeleteDirectory(path, preview, recursive, confirmRecursive, ord)

SpecPreview == InitPreview /\ [][NextPreview]_vars

-----------------------------------------------------------------------------
(* list_directory and find_duplicates over a directory that may hold an      *)
(* entry that cannot be stat'ed (a symbolic link whose target is gone) or    *)
(* a file that cannot be read                                                *)

\* a.bin and sub/d.bin hold any content, c.bin is a copy of a.bin, b.bin may
\* be unreadable, and one dangling link may lie in the directory or below it
BadTrees ==
  { [p \in {SLASH, ScanPath.scan, ScanPath.sub} \cup ScanFiles \cup links |->
       IF p \in links
         THEN Link
       ELSE IF p = ScanPath.b
         THEN (IF locked
                 THEN [type |-> "file", data |-> <<1, 0>>, size |-> 1,
                       mtime |-> <<2024, 0>>, mode |-> 0]
               ELSE File(<<1, 0>>, <<2024, 0>>))
       ELSE IF p = ScanPath.c THEN File(data[ScanPath.a], <<2024, 0>>)
       ELSE IF p \in ScanFiles THEN File(data[p], <<2024, 0>>)
       ELSE Dir]
    : data \in [{ScanPath.a, ScanPath.d} -> Contents], locked \in BOOLEAN,
      links \in {{}, {ScanPath.l}, {ScanPath.sl}} }

ListDirectory(path, recursive, ord) ==
  /\ calls < MaxCalls
  /\ \E listed \in {listDirectoryTool(fs, path, recursive, ord)} :
       last' = [op |-> "list_directory", path |-> path, recursive |-> recursive,
                ord |-> ord, before |-> fs,
                res |-> [outcome |-> IF listed.ok THEN "returned" ELSE "threw",
                         entries |-> listed.entries]]
  /\ calls' = calls + 1
  /\ UNCHANGED <<configFile, loadedConfig, fs>>

InitScan ==
  /\ configFile = OnDisk.missing
  /\ loadedConfig = Null
  /\ fs \in BadTrees
  /\ last = NoCall
  /\ calls = 0

NextScan ==
  \/ \E path \in {ScanPath.scan, ScanPath.sub}, recursive \in BOOLEAN, ord \in Orders :
       ListDirectory(path, recursive, ord)
  \/ \E path \in {ScanPath.scan, ScanPath.sub}, recursive \in BOOLEAN, ord \in Orders :
       FindDuplicates(path, recursive, ord)

SpecScan == InitScan /\ [][NextScan]_vars

-----------------------------------------------------------------------------
(* The claims *)

\* p is b or a directory above b (both canonical)
Above(b, p) == p = b \/ Under(p, b)

\* the protected-path set of a configuration, canonical
ProtectedSet(config) ==
  {normalizedProtectedPaths(config)[i] : i \in 1..Len(normalizedProtectedPaths(config))}

AncestorOfProtected(config, p) == \E q \in ProtectedSet(config) : Under(p, q)

IsDelete == last.op \in {"delete_file", "delete_directory"}

\* C1 (as stated): with an empty configured allow-list (file missing, or
\* allowedPaths = []) every delete_file / delete_directory call is rejected
\* with NO_ALLOWED_PATHS and the filesystem stays as it was
C1_EmptyAllowListRejectsAll ==
  (IsDelete /\ Len(last.config.allowedPaths) = 0)
    => /\ ~last.res.executed
       /\ last.res.message = "NO_ALLOWED_PATHS"
       /\ fs = last.before

\* C2: a delete_directory call with recursive = TRUE and confirmRecursive =
\* FALSE never executes, for every path and every preview: it returns
\* executed = FALSE and the filesystem is as before
C2_RecursiveNeedsConfirmation ==
  (last.op = "delete_directory" /\ last.recursive /\ ~last.confirmRecursive)
    => /\ last.res.outcome = "returned"
       /\ ~last.res.executed
       /\ fs = last.before

\* a recursive, unconfirmed, non-preview call on an existing directory that
\* the policy alone approves
C2_Witness ==
  /\ last.op = "delete_directory" /\ last.recursive /\ ~last.confirmRecursive
  /\ ~last.preview
  /\ validateDeletion(last.config, last.path).safe
  /\ isDirectory(last.before, last.path)
  /\ children(last.before, last.path) # {}
  /\ last.res.message = "BLOCKED: requires confirmRecursive"

NonRecursiveOnNonEmpty ==
  /\ last.op = "delete_directory" /\ ~last.recursive /\ ~last.preview
  /\ validateDeletion(last.config, last.path).safe
  /\ isDirectory(last.before, last.path)
  /\ children(last.before, last.path) # {}

\* C3: a non-recursive, non-preview delete_directory of a policy-approved
\* directory that holds an entry fails with "Directory is not empty" and the
\* number of entries, and the filesystem is as before
C3_NonRecursiveNonEmptyFails ==
  NonRecursiveOnNonEmpty
    => /\ last.res.outcome = "threw"
       /\ ~last.res.executed
       /\ last.res.message = "Directory is not empty"
       /\ last.res.n = Cardinality(children(last.before, last.path))
       /\ fs = last.before

C3_Witness ==
  NonRecursiveOnNonEmpty /\ last.res.outcome = "threw" /\ last.res.n = 2

IsValidateOfAncestor ==
  /\ last.op = "validateDeletion"
  /\ AncestorOfProtected(last.config, resolve(last.path))

\* C4 (as stated): validateDeletion of a strict ancestor of a protected path
\* is not safe, with reason PARENT_OF_PROTECTED
C4_AncestorIsParentOfProtected ==
  IsValidateOfAncestor
    => ~last.res.safe /\ last.res.reason = "PARENT_OF_PROTECTED"

\* C4 (amended): validateDeletion of a strict ancestor P of a protected path
\* is never safe; its reason is that of the scope check when P is outside the
\* allowed scope, PROTECTED_PATH when P is itself a protected path, and
\* PARENT_OF_PROTECTED otherwise
C4_AncestorIsRejected ==
  IsValidateOfAncestor
    => /\ ~last.res.safe
       /\ last.res.reason =
            IF ~isWithinAllowedScope(last.config, last.path).safe
              THEN "OUTSIDE_ALLOWED_SCOPE"
            ELSE IF resolve(last.path) \in ProtectedSet(last.config)
              THEN "PROTECTED_PATH"
            ELSE "PARENT_OF_PROTECTED"

\* an ancestor of a user-added protected path, in scope and not protected
\* itself: the case that does give PARENT_OF_PROTECTED
C4_Witness ==
  /\ IsValidateOfAncestor
  /\ last.config = OnDisk.readme.json
  /\ resolve(last.path) = ToolPath.projects
  /\ last.res.reason = "PARENT_OF_PROTECTED"

RanCleanupCall == last.op # "none" /\ last.res.cleanup.ran

C6_RemovedIsUpwardChain ==
  RanCleanupCall =>
    LET c == last.res.cleanup
        gone(i) == {resolve(c.removed[j]) : j \in 1..i}
    IN  /\ c.removed # <<>> => c.removed[1] = c.start
        /\ \A i \in 2..Len(c.removed) : c.removed[i] = dirname(c.removed[i - 1])
        /\ \A i \in 1..Len(c.removed) : ~exists(fs, c.removed[i])
        /\ Len(c.skipped) <= 1
        /\ c.skipped # <<>>
             => c.skipped[1].path =
                  IF c.removed = <<>> THEN c.start
                  ELSE dirname(c.removed[Len(c.removed)])
        /\ last.op = "cleanupEmptyDirectories"
             => /\ \A i \in 1..Len(c.removed) :
                     /\ isDirectory(last.before, c.removed[i])
                     /\ children(last.before, c.removed[i]) \subseteq gone(i - 1)
                /\ fs = Restrict(last.before, DOMAIN last.before \ gone(Len(c.removed)))

\* a walk that removed two directories and stopped at a non-empty third
C6_Witness ==
  /\ last.op = "cleanupEmptyDirectories"
  /\ Len(last.res.cleanup.removed) = 2
  /\ Len(last.res.cleanup.skipped) = 1
  /\ last.res.cleanup.skipped[1].reason.code = "not_empty"

\* the regular files find_duplicates scans
Scanned ==
  {q \in (IF last.recursive THEN descendants(last.before, last.path)
          ELSE children(last.before, last.path)) : last.before[q].type = "file"}

DataOf(q) == last.before[q].data

\* I is a set of two or more byte-identical scanned files, complete
Identical(I) ==
  /\ Cardinality(I) >= 2
  /\ \A p \in I, q \in I : DataOf(p) = DataOf(q)

FilesOf(g) == {g.files[i] : i \in 1..Len(g.files)}

OneGroupOf(I) ==
  /\ Len(last.res.groups) = 1
  /\ FilesOf(last.res.groups[1]) = I

NoSmallGroup == \A i \in 1..Len(last.res.groups) : Len(last.res.groups[i].files) >= 2

\* the other files differ from each other and from those of I, in content
OthersDistinctContent(I) ==
  /\ \A p \in Scanned \ I, q \in Scanned \ I : p # q => DataOf(p) # DataOf(q)
  /\ \A p \in Scanned \ I, q \in I : DataOf(p) # DataOf(q)

\* the other files differ from each other and from those of I, in MD5 digest
OthersDistinctDigest(I) ==
  /\ \A p \in Scanned \ I, q \in Scanned \ I : p # q => md5(DataOf(p)) # md5(DataOf(q))
  /\ \A p \in Scanned \ I, q \in I : md5(DataOf(p)) # md5(DataOf(q))

\* C7 (as stated): N >= 2 byte-identical files scanned with M files of
\* pairwise distinct content give exactly one group, of the N files; no
\* group has fewer than 2 files
C7_OneGroupOfIdentical ==
  last.op = "find_duplicates"
    => /\ NoSmallGroup
       /\ \A I \in SUBSET Scanned :
            (Identical(I) /\ OthersDistinctContent(I)) => OneGroupOf(I)

\* C7 (amended): N >= 2 byte-identical files scanned with M files whose MD5
\* digests differ from each other and from that of the N give exactly one
\* group, of the N files; no group has fewer than 2 files
C7_OneGroupOfEqualDigest ==
  last.op = "find_duplicates"
    => /\ NoSmallGroup
       /\ \A I \in SUBSET Scanned :
            (Identical(I) /\ OthersDistinctDigest(I)) => OneGroupOf(I)

\* two identical files scanned with two others, one group returned
C7_Witness ==
  /\ last.op = "find_duplicates"
  /\ \E I \in SUBSET Scanned :
       /\ Identical(I) /\ OthersDistinctDigest(I)
       /\ Cardinality(Scanned \ I) = 2
       /\ OneGroupOf(I)

IsExampleQuery == last.op = "validateDeletion" /\ last.config = OnDisk.projects.json

\* C8 (as stated): with the allow-list ["/home/u/projects"],
\* /home/u/projects/tmp/a.txt is safe and /home/u is rejected with
\* PROTECTED_PATH
C8_ExampleProtectedPath ==
  IsExampleQuery
    => /\ last.path = ToolPath.a => last.res.safe
       /\ last.path = ToolPath.home
            => ~last.res.safe /\ last.res.reason = "PROTECTED_PATH"

\* C8 (amended): with the allow-list ["/home/u/projects"],
\* /home/u/projects/tmp/a.txt is safe and /home/u is rejected with
\* OUTSIDE_ALLOWED_SCOPE, the scope check coming first; isPathProtected alone
\* rejects /home/u with PROTECTED_PATH
C8_ExampleOutsideScope ==
  IsExampleQuery
    => /\ last.path = ToolPath.a => last.res.safe
       /\ last.path = ToolPath.home
            => /\ ~last.res.safe
               /\ last.res.reason = "OUTSIDE_ALLOWED_SCOPE"
               /\ isPathProtected(last.config, ToolPath.home).reason = "PROTECTED_PATH"

C8_Witness ==
  IsExampleQuery /\ last.path = ToolPath.home /\ last.res.reason = "OUTSIDE_ALLOWED_SCOPE"

\* C9 (as stated): whatever calls were made, every directory of the
\* protected-path set that existed at the start still exists
C9_ProtectedPathsSurvive ==
  \A q \in ProtectedSet(loadConfig(loadedConfig, configFile)) :
    isDirectory(Tree0, q) => isDirectory(fs, q)

\* C10 (as stated): an executed delete_file or delete_directory removes no
\* entry whose basename matches a protected-name pattern
C10_ProtectedNamesSurvive ==
  (IsDelete /\ last.res.executed)
    => \A q \in DOMAIN last.before \ DOMAIN fs :
         isNameProtected(last.config, basename(q)).safe

IsRejectedDelete == IsDelete /\ ~validateDeletion(last.config, last.path).safe

\* C11: in every delete_file and delete_directory call validateDeletion comes
\* before any mutation: when it is not safe the call returns executed = FALSE
\* with the policy's reason and the filesystem is as before, also when the
\* path does not exist or is of the wrong kind
C11_ValidationPrecedesMutation ==
  IsRejectedDelete
    => /\ last.res.outcome = "returned"
       /\ ~last.res.executed
       /\ last.res.message = validateDeletion(last.config, last.path).reason
       /\ fs = last.before

\* a rejected delete_directory of a path that no longer exists
C11_Witness ==
  /\ IsRejectedDelete
  /\ last.op = "delete_directory"
  /\ ~exists(last.before, last.path)
  /\ last.res.message = "PROTECTED_NAME"

IsPreview == IsDelete /\ last.preview

Segments(p) == SelectSeq(SplitOn(p, {"/"}), LAMBDA x : x # <<>>)

IsPrefixOf(a, b) == Len(a) <= Len(b) /\ SubSeq(b, 1, Len(a)) = a

\* p equals an allow-list entry or lies below one, segment by segment
InScopeBySegments(config, p) ==
  \E i \in 1..Len(getAllowedPaths(config)) :
    IsPrefixOf(Segments(resolve(expandPath(getAllowedPaths(config)[i]))),
               Segments(resolve(p)))

\* C13 (as stated): with a non-empty allow-list isWithinAllowedScope(p) is
\* safe exactly when the canonical p equals an allow-list entry or is a
\* descendant of one by path segments, the root entry included; everything
\* else is rejected with OUTSIDE_ALLOWED_SCOPE
C13_ScopeBySegments ==
  (last.op = "validateDeletion" /\ Len(getAllowedPaths(last.config)) > 0)
    => /\ isWithinAllowedScope(last.config, last.path).safe
            <=> InScopeBySegments(last.config, last.path)
       /\ ~isWithinAllowedScope(last.config, last.path).safe
            => isWithinAllowedScope(last.config, last.path).reason
                 = "OUTSIDE_ALLOWED_SCOPE"

\* C13, the root entry left out and names with "\" left out: the part of
\* the statement the code does satisfy
C13_ScopeBySegmentsBelowRoot ==
  (/\ last.op = "validateDeletion"
   /\ last.config # OnDisk.root.json
   /\ \A i \in 1..Len(last.path) : last.path[i] # "\\")
    => (isWithinAllowedScope(last.config, last.path).safe
          <=> InScopeBySegments(last.config, last.path))

ScopeCheckOf(config, p) == isWithinAllowedScope(config, resolve(p))
PathCheckOf(config, p) == isPathProtected(config, resolve(p))
NameCheckOf(config, p) ==
  isNameProtected(config, Last(SplitOn(resolve(p), {"/", "\\"})))

\* C14: validateDeletion returns the result of the first failing check of
\* scope, path protection, name protection, in that order, and is safe only
\* when all three pass: outside the scope the reason is the scope's whatever
\* else is protected, and in scope a path- and name-protected path is
\* rejected with the path-protection reason
C14_FirstFailingCheckWins ==
  last.op = "validateDeletion"
    => /\ last.res =
            IF ~ScopeCheckOf(last.config, last.path).safe
              THEN ScopeCheckOf(last.config, last.path)
            ELSE IF ~PathCheckOf(last.config, last.path).safe
              THEN PathCheckOf(last.config, last.path)
            ELSE IF ~NameCheckOf(last.config, last.path).safe
              THEN NameCheckOf(last.config, last.path)
            ELSE Safe
       /\ last.res.safe
            <=> /\ ScopeCheckOf(last.config, last.path).safe
                /\ PathCheckOf(last.config, last.path).safe
                /\ NameCheckOf(last.config, last.path).safe

\* ~/.ssh with /home allowed: in scope, protected by path and by name
C14_Witness ==
  /\ last.op = "validateDeletion"
  /\ ScopeCheckOf(last.config, last.path).safe
  /\ ~PathCheckOf(last.config, last.path).safe
  /\ ~NameCheckOf(last.config, last.path).safe
  /\ last.res.reason = "PROTECTED_PATH"

\* what loadConfig makes of a configuration file
ParseFile(file) == IF file.state = "ok" THEN file.json ELSE EmptyConfig

IsQuery == last.op = "validateDeletion"

\* C15: a query that finds the configuration loaded uses it, whatever the
\* file holds by then, and keeps it loaded; the first query ever reads the
\* file; the first query after reloadConfig uses the file's content as it
\* was at the time of the reload
C15_ReloadTimeContent ==
  IsQuery
    => /\ last.config = IF last.cache # Null THEN last.cache[1]
                        ELSE ParseFile(configFile)
       /\ last.reloaded # <<>> => last.config = ParseFile(last.reloaded[1])
       /\ loadedConfig = <<last.config>>
       /\ last.res = validateDeletion(last.config, last.path)

\* the first query after a reload, answered with the file's content of
\* reload time although the file was edited since
C15_Witness ==
  /\ IsQuery
  /\ last.reloaded # <<>>
  /\ last.config = ParseFile(last.reloaded[1])
  /\ last.config # ParseFile(configFile)

IsMoveOrOrganize == last.op \in {"move_file", "organize_by_type"}

\* C16 (as stated): move_file and organize_by_type consult the policy first:
\* every file renamed away from its place and every directory removed by the
\* cleanup is a path that validateDeletion approves
C16_MoveConsultsPolicy ==
  IsMoveOrOrganize
    => \A q \in DOMAIN last.before \ DOMAIN fs :
         validateDeletion(last.config, q).safe

\* the boundary as the walk compares it: without a trailing "/"
WalkRoot(c) ==
  IF endsWith(c.boundary, SLASH) THEN SubSeq(c.boundary, 1, Len(c.boundary) - 1)
  ELSE c.boundary

\* the directory at which the walk stopped
StoppedAt(c) ==
  IF c.removed = <<>> THEN c.start ELSE dirname(c.removed[Len(c.removed)])

\* the walk ended because it reached the boundary (or the root)
StoppedAtBoundary(c) ==
  StoppedAt(c) = WalkRoot(c) \/ StoppedAt(c) = SLASH \/ StoppedAt(c) = <<>>

OsRefusals == {"EINVAL", "ENOTEMPTY", "EBUSY", "ENOTDIR"}

\* C17 (as stated): every walk returns one skipped record, for the directory
\* at which it stopped, and no error is raised
C17_EveryStopIsRecorded ==
  RanCleanupCall
    => /\ Len(last.res.cleanup.skipped) = 1
       /\ last.res.cleanup.skipped[1].path = StoppedAt(last.res.cleanup)
       /\ last.op # "cleanupEmptyDirectories" => last.res.outcome = "returned"

\* C17 (amended): no walk raises an error.  A walk that stops because the
\* directory is outside the boundary, missing, not a directory, not empty or
\* refused by the OS returns exactly one skipped record, for that directory,
\* with that reason; a walk that stops because it reached the boundary (or
\* the root) returns no skipped record
C17_StopsRecordedButBoundary ==
  RanCleanupCall =>
    LET c == last.res.cleanup
        at == StoppedAt(c)
    IN  /\ last.op # "cleanupEmptyDirectories" => last.res.outcome = "returned"
        /\ StoppedAtBoundary(c) => c.skipped = <<>>
        /\ ~StoppedAtBoundary(c)
             => /\ Len(c.skipped) = 1
                /\ c.skipped[1].path = at
                /\ c.skipped[1].reason =
                     IF ~startsWith(at, WalkRoot(c))
                       THEN Reason("outside_root_boundary", 0)
                     ELSE IF ~exists(fs, at) THEN Reason("ENOENT", 0)
                     ELSE IF ~isDirectory(fs, at) THEN Reason("not_a_directory", 0)
                     ELSE IF children(fs, at) # {}
                       THEN Reason("not_empty", Cardinality(children(fs, at)))
                     ELSE c.skipped[1].reason
                /\ (/\ startsWith(at, WalkRoot(c))
                    /\ isDirectory(fs, at)
                    /\ children(fs, at) = {})
                     => c.skipped[1].reason.code \in OsRefusals

\* a walk under move_file that the OS stopped: rmdir refused an empty
\* directory
C17_Witness ==
  /\ RanCleanupCall
  /\ last.op = "move_file"
  /\ Len(last.res.cleanup.skipped) = 1
  /\ last.res.cleanup.skipped[1].reason.code = "EINVAL"
  /\ children(fs, last.res.cleanup.skipped[1].path) = {}

\* a delete_directory call that passes the policy and is stopped by one of
\* the two gates of the tool: recursive without confirmation, or
\* non-recursive on a directory that holds an entry
IsGateRejection ==
  /\ last.op = "delete_directory"
  /\ validateDeletion(last.config, last.path).safe
  /\ \/ requiresConfirmation(last.recursive, last.confirmRecursive)
     \/ NonRecursiveOnNonEmpty

\* C18 (as stated): the not-empty outcome and the requires-confirmation
\* outcome of delete_directory are returned as a result with
\* executed = FALSE, never raised as an error
C18_GateRejectionsAreReturned ==
  IsGateRejection => last.res.outcome = "returned" /\ ~last.res.executed

PathReasons == {"PROTECTED_PATH", "PARENT_OF_PROTECTED"}

ScopeReasons == {"NO_ALLOWED_PATHS", "OUTSIDE_ALLOWED_SCOPE"}

\* C19 (as stated): in every returned delete_file / delete_directory result
\* the scope flag is FALSE for the reasons no-allowed-paths and
\* outside-allowed-scope, the protection flag is FALSE for the reasons
\* protected-path, parent-of-protected and protected-name, and all flags are
\* TRUE in an executed or preview result
C19_FlagsReportEachCheck ==
  (IsDelete /\ last.res.outcome = "returned") =>
    LET v == validateDeletion(last.config, last.path)
        flags == last.res.safetyChecks
    IN  /\ (~v.safe /\ v.reason \in ScopeReasons) => ~flags.withinScope
        /\ (~v.safe /\ v.reason \in PathReasons) => ~flags.notProtected
        /\ (~v.safe /\ v.reason = "PROTECTED_NAME") => ~flags.notProtected
        /\ (last.res.executed \/ last.res.message = "PREVIEW")
             => flags.withinScope /\ flags.notProtected

\* a non-recursive, non-preview delete_directory of an existing,
\* policy-approved, empty directory
NonRecursiveOnEmpty ==
  /\ last.op = "delete_directory" /\ ~last.recursive /\ ~last.preview
  /\ validateDeletion(last.config, last.path).safe
  /\ isDirectory(last.before, last.path)
  /\ children(last.before, last.path) = {}

\* C20 (as stated): a non-recursive, non-preview delete_directory of an
\* existing, policy-approved, empty directory returns executed = TRUE with
\* itemsDeleted = 1, and the directory is gone afterwards
C20_EmptyDirectoryIsDeleted ==
  NonRecursiveOnEmpty
    => /\ last.res.outcome = "returned"
       /\ last.res.executed
       /\ last.res.itemsDeleted = 1
       /\ ~exists(fs, last.path)

IsScanCall ==
  /\ last.op \in {"list_directory", "find_duplicates"}
  /\ isDirectory(last.before, last.path)

\* the tree without the entries that cannot be stat'ed
Statable(f) == Restrict(f, {q \in DOMAIN f : f[q].type # "link"})

\* the tree without the entries that cannot be stat'ed or read
Hashable(f) ==
  Restrict(f, {q \in DOMAIN f : f[q].type # "link" /\ "mode" \notin DOMAIN f[q]})

\* C21 (as stated): list_directory and find_duplicates of a directory return,
\* whatever entry below it cannot be stat'ed or read, and the result is the
\* one for the tree without those entries
C21_BadEntriesAreSkipped ==
  IsScanCall
    => /\ last.res.outcome = "returned"
       /\ last.op = "list_directory"
            => last.res.entries =
                 listDirectoryTool(Statable(last.before), last.path,
                                   last.recursive, last.ord).entries
       /\ last.op = "find_duplicates"
            => last.res.groups =
                 findDuplicatesTool(Hashable(last.before), last.path,
                                    last.recursive, last.ord).groups

\* C21 (the part that holds): when every entry scanned can be stat'ed,
\* find_duplicates returns, and its groups are those of the tree without the
\* unreadable files
C21_UnreadableFilesAreSkipped ==
  (/\ IsScanCall
   /\ last.op = "find_duplicates"
   /\ listDirectoryTool(last.before, last.path, last.recursive, last.ord).ok)
    => /\ last.res.outcome = "returned"
       /\ last.res.groups =
            findDuplicatesTool(Hashable(last.before), last.path,
                               last.recursive, last.ord).groups

\* C22 (as stated): a configuration with a pattern that does not compile is
\* never the loaded one (its load fails), and no validateDeletion call
\* raises a pattern-compilation error
C22_PatternsCompiledAtLoad ==
  /\ IsQuery => ~last.res.threw
  /\ loadedConfig # Null
       => \A i \in 1..Len(loadedConfig[1].additionalProtectedPatterns) :
            compiles(loadedConfig[1].additionalProtectedPatterns[i])

\* C23 (as stated): every directory a cleanup removes lies strictly below the
\* boundary, segment by segment; a start that only shares a textual prefix
\* with the boundary (start /data/foobar/x, boundary /data/foo) has nothing
\* removed
C23_RemovedBelowBoundary ==
  RanCleanupCall =>
    LET c == last.res.cleanup
    IN  \A i \in 1..Len(c.removed) : Under(resolve(c.boundary), resolve(c.removed[i]))

\* a delete_directory call that reached previewDeletion
IsListedDelete ==
  /\ last.op = "delete_directory"
  /\ validateDeletion(last.config, last.path).safe
  /\ ~requiresConfirmation(last.recursive, last.confirmRecursive)
  /\ isDirectory(last.before, last.path)

\* the files and directories below d
FilesAndDirsBelow(f, d) ==
  {q \in descendants(f, d) : f[q].type \in {"file", "dir"}}

\* C24 (as stated): a recursive preview lists each file and directory below
\* the directory once, then the directory, every entry before the directory
\* that holds it; a non-recursive preview lists the directory alone; an
\* executed recursive deletion reports as itemsDeleted the number of entries
\* it removed
C24_PreviewCountsWhatIsRemoved ==
  IsListedDelete =>
    LET items == last.res.preview
        d == resolve(last.path)
    IN  /\ (last.preview /\ last.recursive)
             => /\ {items[i].path : i \in 1..Len(items)}
                     = FilesAndDirsBelow(last.before, d) \cup {d}
                /\ Len(items) = Cardinality(FilesAndDirsBelow(last.before, d)) + 1
                /\ \A i, j \in 1..Len(items) :
                     Under(items[j].path, items[i].path) => i < j
        /\ (last.preview /\ ~last.recursive) => items = <<Item(d, "directory", 0)>>
        /\ last.res.executed
             => last.res.itemsDeleted = Cardinality(DOMAIN last.before \ DOMAIN fs)

WalkDone == last.op = "walk" /\ last.pc = "done"

\* the step that follows a removal
Climbs == last.op = "walk" /\ last.pc = "rmdir" /\ last'.pc = "loop"

\* C25 (as stated): every call of cleanupEmptyDirectories returns, whatever
\* the start and the boundary and whatever another process creates
\* meanwhile, and every removal is followed by a strictly shorter path
C25_ParentIsShorter ==
  /\ (last.op = "walk") ~> WalkDone
  /\ [][Climbs => Len(last'.currentDir) < Len(last.currentDir)]_vars

\* C25 (amended): every call of cleanupEmptyDirectories returns, whatever
\* the start and the boundary (absolute, relative, with a trailing
\* separator, the boundary no ancestor of the start) and whatever another
\* process creates meanwhile; every removal is followed by a strictly
\* shorter path or by ".", the parent of a relative name of one segment
C25_WalkReturns ==
  /\ (last.op = "walk") ~> WalkDone
  /\ [][Climbs => \/ Len(last'.currentDir) < Len(last.currentDir)
                  \/ last'.currentDir = DOT]_vars

\* a walk from a relative start that removed three directories and then
\* returned at "."
C25_Witness ==
  /\ WalkDone
  /\ Len(last.removed) = 3
  /\ last.currentDir = DOT
  /\ Len(last.skipped) = 1

\* the step of the walk that calls rmdir
IsRemovalStep == last.op = "walk" /\ last.pc = "rmdir" /\ last'.pc # "rmdir"

\* C26: whatever another process creates between the emptiness check, the
\* recheck and the removal, the removal of a directory that holds an entry
\* at that moment fails, changes nothing, and ends the walk with a skipped
\* record for the directory with the error of rmdir (ENOTEMPTY); a removal
\* that succeeds takes one empty directory and nothing else; so every entry
\* created meanwhile is still there
C26_RemovalFailsOnNonEmpty ==
  /\ [](last.op = "walk" => last.created \subseteq DOMAIN fs)
  /\ [][IsRemovalStep =>
          /\ children(fs, last.currentDir) # {}
               => /\ fs' = fs
                  /\ last'.pc = "done"
                  /\ last'.removed = last.removed
                  /\ last'.skipped =
                       Append(last.skipped, [path |-> last.currentDir,
                                             reason |-> Reason("ENOTEMPTY", 0)])
          /\ fs' # fs
               => /\ children(fs, last.currentDir) = {}
                  /\ DOMAIN fs \ DOMAIN fs' = {Key(fs, last.currentDir)}
                  /\ DOMAIN fs' \subseteq DOMAIN fs]_vars

\* a walk that found the directory empty twice and was then refused by
\* rmdir, because of an entry created in between, which is still there
C26_Witness ==
  /\ WalkDone
  /\ Len(last.skipped) = 1
  /\ last.skipped[1].reason = Reason("ENOTEMPTY", 0)
  /\ children(fs, last.skipped[1].path) \cap last.created # {}
  /\ Len(last.removed) = 1

-----------------------------------------------------------------------------
(* tools/organize.ts: renameFilesTool, one rename_files call a step *)

\* RegExp exec at `pos`: the end of the match the backtracking engine finds
\* first (an optional character is tried taken before skipped, ".+" longest
\* first), 0 when there is none
RECURSIVE execFrom(_, _, _, _)
execFrom(items, s, pos, toEnd) ==
  IF items = <<>> THEN (IF toEnd /\ pos # Len(s) + 1 THEN 0 ELSE pos)
  ELSE LET Hit(it) == pos <= Len(s) /\ s[pos] = it.c
           Tries(it) ==
             CASE it.k = "lit" -> IF Hit(it) THEN <<pos + 1>> ELSE <<>>
               [] it.k = "opt" -> IF Hit(it) THEN <<pos + 1, pos>> ELSE <<pos>>
               [] it.k = "plus" -> [i \in 1..(Len(s) + 1 - pos) |-> Len(s) + 2 - i]
           First(ends) ==
             IF \A i \in DOMAIN ends : ends[i] = 0 THEN 0
             ELSE ends[CHOOSE i \in DOMAIN ends :
                         ends[i] # 0 /\ \A j \in 1..(i - 1) : ends[j] = 0]
           Ends(tries) ==
             First([i \in DOMAIN tries |-> execFrom(Tail(items), s, tries[i], toEnd)])
       IN  Ends(Tries(Head(items)))

\* String.prototype.replace(regex, replacement) with a regex without the g
\* flag and a replacement without "$": the leftmost match is replaced
replace(re, s, replacement) ==
  LET Starts == IF re.start THEN {1} ELSE 1..(Len(s) + 1)
      Cut(st, e) == SubSeq(s, 1, st - 1) \o replacement \o SubSeq(s, e, Len(s))
      At(hits) ==
        IF hits = {} THEN s
        ELSE LET st == CHOOSE h \in hits : \A g \in hits : h <= g
             IN  Cut(st, execFrom(re.body, s, st, re.end))
  IN  At({st \in Starts : execFrom(re.body, s, st, re.end) # 0})

RenameResult(f, outcome, previewed, changes, message) ==
  [fs |-> f, outcome |-> outcome, previewed |-> previewed, changes |-> changes,
   message |-> message]

\* for (const entry of entries): stat, test, replace, rename
RECURSIVE renameLoop(_, _, _, _, _, _, _)
renameLoop(f, path, regex, replacement, preview, entries, changes) ==
  LET Renamed(entry, newName, moved) ==
        IF ~moved.ok THEN RenameResult(f, "threw", preview, <<>>, moved.err)
        ELSE renameLoop(moved.fs, path, regex, replacement, preview, Tail(entries),
                        Append(changes, [original |-> entry, renamed |-> newName]))
      Step(entry, fullPath, newName) ==
        IF statFails(f, fullPath)
          THEN RenameResult(f, "threw", preview, <<>>, "ENOENT")
        ELSE IF isFile(f, fullPath) /\ test(regex, entry) /\ newName # entry
          THEN (IF preview
                  THEN renameLoop(f, path, regex, replacement, preview, Tail(entries),
                                  Append(changes, [original |-> entry,
                                                   renamed |-> newName]))
                ELSE Renamed(entry, newName, rename(f, fullPath, join(path, newName))))
        ELSE renameLoop(f, path, regex, replacement, preview, Tail(entries), changes)
  IN  IF entries = <<>> THEN RenameResult(f, "returned", preview, changes, "none")
      ELSE Step(Head(entries), join(path, Head(entries)),
                replace(regex, Head(entries), replacement))

renameFilesTool(f, path, pattern, replacement, preview, ord) ==
  IF ~compiles(pattern) THEN RenameResult(f, "threw", preview, <<>>, "SyntaxError")
  ELSE IF ~isDirectory(f, path)
    THEN RenameResult(f, "threw", preview, <<>>,
                      IF isFile(f, path) THEN "ENOTDIR" ELSE "ENOENT")
  ELSE renameLoop(f, path, pattern, replacement, preview, readdir(f, path, ord), <<>>)

\* the paths of the directory rename_files works on
RenamePath ==
  [r |-> <<"/","h","o","m","e","/","u","/","r">>,
   a1 |-> <<"/","h","o","m","e","/","u","/","r","/","a","1">>,
   a2 |-> <<"/","h","o","m","e","/","u","/","r","/","a","2">>,
   a |-> <<"/","h","o","m","e","/","u","/","r","/","a">>,
   d |-> <<"/","h","o","m","e","/","u","/","r","/","d">>,
   z |-> <<"/","h","o","m","e","/","u","/","r","/","z">>]

\* /home/u/r with the files a1 and a2 and, or not, a file a, a directory d,
\* a dangling link z
RenameTrees ==
  { [p \in {SLASH, <<"/","h","o","m","e">>, WalkPath.u, RenamePath.r, RenamePath.a1, RenamePath.a2} \cup more |->
       IF p = RenamePath.a1 THEN File(<<1, 0>>, <<2024, 0>>)
       ELSE IF p = RenamePath.a2 THEN File(<<1, 1>>, <<2024, 0>>)
       ELSE IF p = RenamePath.a THEN File(<<1, 2>>, <<2024, 0>>)
       ELSE IF p = RenamePath.z THEN Link
       ELSE Dir]
    : more \in {{}, {RenamePath.a}, {RenamePath.d}, {RenamePath.z}} }

RenameFiles(path, pattern, replacement, preview, ord) ==
  /\ calls < MaxCalls
  /\ \E r \in {renameFilesTool(fs, path, pattern, replacement, preview, ord)} :
       /\ fs' = r.fs
       /\ last' = [op |-> "rename_files", path |-> path, pattern |-> pattern,
                   replacement |-> replacement, preview |-> preview, ord |-> ord,
                   before |-> fs, res |-> Strip(r)]
  /\ calls' = calls + 1
  /\ UNCHANGED <<configFile, loadedConfig>>

InitRename ==
  /\ configFile = OnDisk.missing
  /\ loadedConfig = Null
  /\ fs \in RenameTrees
  /\ last = NoCall
  /\ calls = 0

\* the patterns are /1/, /^a.+$/, and "*", which is no regular expression
NextRename ==
  \E path \in {RenamePath.r, <<"/","h","o","m","e","/","u","/","r","/">>, <<"/","h","o","m","e","/","u","/","g","o","n","e">>},
     pattern \in { [start |-> FALSE, body |-> Lits(<<"1">>), end |-> FALSE],
                   Anchored(<<Lit("a"), AnyPlus>>),
                   [start |-> FALSE, body |-> <<[k |-> "star", c |-> "*"]>>,
                    end |-> FALSE] },
     replacement \in {<<>>, <<"b">>, <<"2">>, <<"d">>}, preview \in BOOLEAN,
     ord \in Orders :
    RenameFiles(path, pattern, replacement, preview, ord)

SpecRename == InitRename /\ [][NextRename]_vars

IsRenameCall == last.op = "rename_files"

\* the regular files directly in directory d
filesIn(f, d) == {q \in children(f, d) : f[q].type = "file"}

\* C27: rename_files never loses a file: a preview leaves the filesystem as
\* it was; a call that applies the renames leaves as many regular files in
\* the directory as it found, and every change it reports names a file that
\* exists under its new name
C27_NoFileIsLost ==
  IsRenameCall =>
    /\ last.preview => fs = last.before
    /\ ~last.preview =>
         /\ Cardinality(filesIn(fs, last.path))
              = Cardinality(filesIn(last.before, last.path))
         /\ \A i \in DOMAIN last.res.changes :
              isFile(fs, join(last.path, last.res.changes[i].renamed))

\* C27, the part that holds: a preview changes nothing, and every change a
\* call reports names a file that exists under its new name afterwards
C27_PreviewChangesNothing ==
  IsRenameCall =>
    /\ last.preview => fs = last.before
    /\ ~last.preview =>
         \A i \in DOMAIN last.res.changes :
           isFile(fs, join(last.path, last.res.changes[i].renamed))
=============================================================================
